---- MODULE Spec2Model ----
(***************************************************************************)
(* Model of the backend-agnostic execution core of chipStar                *)
(* (src/src/CHIPBackend.cc): the allocation tracker, Context::allocate and *)
(* Context::free, the device-variable lifecycle of CHIPModule and the      *)
(* one-shot module compilation.                                            *)
(*                                                                         *)
(* A handler of the program is one action.  Its body is written as a       *)
(* function from a program-state record to the set of outcomes the handler *)
(* can produce (the nondeterminism is the native allocator's answer).      *)
(***************************************************************************)
EXTENDS Integers, Sequences, FiniteSets, TLC

\* ------------------------------------------------------------------ bounds
\* size_t is modelled with SizeBits bits: arithmetic on it wraps at SizeMod.
SizeBits == 3
SizeMod == 2 ^ SizeBits
\* hip_device_props.totalGlobalMem of the one device of the model
GlobalMemSize == 4
\* device addresses the native allocator has for the callers of
\* Context::allocate: 1..NumPtrs
NumPtrs == 2
\* largest size a caller passes to Context::allocate
MaxAllocSize == 2
\* modules registered on the device: 1..NumModules
NumModules == 1
\* device variables one module declares at most
MaxVars == 1
\* largest size a device variable is registered with
MaxVarSize == 1
\* host threads that call compileOnce: 1..NumThreads
NumThreads == 3
\* compileOnce calls one thread makes at most
MaxCalls == 2
\* events the program has created: 1..NumEvents
NumEvents == 2
\* addAction calls made on one event at most
MaxActions == 2
\* addCallback calls made at most
MaxCallbacks == 2
\* host threads that call addCallback
NumHostThreads == 2
\* operations other than callbacks submitted to the queue at most
MaxWork == 2
\* setArg calls a thread makes between configureCall and launch at most
MaxSetArgs == 2
\* largest value of the major field of a device or of a request
MaxMajor == 4
\* largest value of the minor field of a device or of a request
MaxMinor == 1
\* offsets of kernel arguments: 0 .. MaxOffset, and the same behind the slack
MaxOffset == 2
\* largest size of one kernel argument in bytes
MaxArgSize == 2
\* kernels of the device's modules at most
MaxKernels == 2
\* host function pointers: 1 .. NumHostPtrs
NumHostPtrs == 2
\* launches submitted to the queue at most
MaxLaunches == 2
\* operations submitted to the queue of the enqueue model at most
MaxSubmits == 3
\* calls of the device-variable entry points made by the host threads at most
MaxEntryCalls == 2
\* calls made in the model of the mutexes at most
MaxLockCalls == 2
\* event pools one context creates at most
MaxPools == 3
\* getEventFromPool calls made at most
MaxRequests == 5
\* calls of Context::allocate, free and reset made by the host threads at most
MaxThreadCalls == 3
\* devices the backend created at initialization
NumDevices == 2
\* queue objects made for one device, the default queue included
NumQueues == 1

NULL == 0
\* sizeof(CHIPVarInfo), in the unit the model counts memory in
VarInfoBytes == 1
\* arg_data.resize(offset + size + 1024)
ArgSlack == 1024
Modules == 1 .. NumModules
Threads == 1 .. NumThreads
Events == 1 .. NumEvents
HostThreads == 1 .. NumHostThreads
\* The mutexes of one device with its context, tracker, queue and event pool.
Mutexes == {"device", "context", "tracker", "queue", "ContextMtx", "EventPoolMtx"}
\* The events of the first MaxPools pools: pool k holds 2^(k-1) .. 2^k - 1.
PoolEventIds == 1 .. (2 ^ MaxPools - 1)
Devices == 1 .. NumDevices
HostPtrs == 1 .. NumHostPtrs
Ptrs == 1 .. NumPtrs
\* The device-variable lifecycle has one more: the info buffer of an
\* allocation phase is never freed.
VarPtrs == 1 .. (NumPtrs + 1)
SizeT == 0 .. (SizeMod - 1)

\* ------------------------------------------------------------------- state
VARIABLES
  total_mem_used,          \* CHIPAllocationTracker::total_mem_used
  max_mem_used,            \* CHIPAllocationTracker::max_mem_used
  dev_to_allocation_info,  \* CHIPAllocationTracker::dev_to_allocation_info
  native_ptrs,             \* the device addresses the native allocator can hand out
  native_live,             \* pointers the native allocator has handed out and not taken back
  recorded_args,           \* history: the (pointer, size) of each recordAllocation call
  NDEBUG,                  \* the build: TRUE when assert() is compiled out
  chip_vars,               \* CHIPModule::chip_vars, per module: the CHIPDeviceVar objects
  DeviceVariablesAllocated,    \* CHIPModule::DeviceVariablesAllocated, per module
  DeviceVariablesInitialized,  \* CHIPModule::DeviceVariablesInitialized, per module
  asserts_skipped,         \* history: assertions that were false and compiled out so far
  compiled,                \* CHIPModule::compiled, the std::once_flag, per module
  thread_pc,               \* per host thread: where it is in compileOnce
  thread_module,           \* per host thread: the module it called compileOnce on
  thread_calls,            \* history: compileOnce calls each thread has made
  hist_compile_started,    \* history: times CHIPModule::compile was entered, per module
  hist_compile_finished,   \* history: times CHIPModule::compile returned, per module
  event_status,            \* CHIPEvent::event_status, per event
  Actions_,                \* CHIPEventLevel0::Actions_, per event: the actions not yet run
  hist_attached,           \* history: number of addAction calls, per event
  hist_run,                \* history: the actions doActions has run, in order, per event
  queue_ops,               \* the operations enqueued on the queue, in submission order
  dev_done,                \* how many operations of queue_ops the device has completed
  callbacks,               \* the CHIPCallbackData records created so far
  callback_stack,          \* Backend->callback_stack
  event_monitor,           \* CHIPQueue::event_monitor: NULL or the monitor created
  monitors,                \* the CHIPEventMonitor threads: position in monitor() and cb
  host_pc,                 \* position of each host thread in CHIPQueue::addCallback
  chip_queues,             \* CHIPDevice::chip_queues, per device
  active_dev,              \* CHIPBackend::active_dev
  active_ctx,              \* CHIPBackend::active_ctx
  active_q,                \* CHIPBackend::active_q
  chip_execstack,          \* CHIPBackend::chip_execstack, top last: who configured, who wrote
  exec_pc,                 \* per host thread: between configureCall and launch, or not
  exec_args,               \* per host thread: setArg calls since its configureCall
  device_props,            \* what copyDeviceProperties reports, per device of chip_devices
  matched,                 \* the last findDeviceMatchingProps call: the request and the device returned
  arg_data,                \* CHIPExecItem::arg_data: its size and the bytes that are not zero
  offset_sizes,            \* CHIPExecItem::offset_sizes
  hist_args,               \* history: the arguments set so far: offset, size, which argument
  chip_kernels,            \* the kernels of the device in getKernels() order: host_f_ptr of each
  hist_registered,         \* history: the (host pointer, kernel) pairs registered
  LastEvent,               \* the last event of the queue: NULL, or the launch that returned it
  hist_launches,           \* history: launches submitted to the queue
  cmd_list,                \* the operations submitted to the queue, oldest first
  cmd_done,                \* how many operations of cmd_list the device has completed
  mtx,                     \* CHIPQueue::mtx: the thread that holds it, or NULL
  call_pc,                 \* per host thread: "idle", or "finish" inside a synchronous variant
  call_ev,                 \* per host thread: the operation (ev) its synchronous variant submitted
  dev_mtx,                 \* CHIPDevice::mtx: the thread that holds it, or NULL
  entry_pc,                \* per host thread: "idle", "called" (before the lock) or "locked"
  entry_op,                \* per host thread: the device-variable entry point it is in
  entry_calls,             \* device-variable entry points called so far
  ctx_mtx,                 \* CHIPContext::mtx: the thread that holds it, or NULL
  alloc_pc,                \* per host thread: "idle", or the statement of allocate or free it is at
  alloc_size,              \* per host thread: size of the call, or of the record free found
  alloc_calls,             \* calls of allocate, free and reset the threads have made
  alloc_ptr,               \* per host thread: allocated_ptr of allocate, ptr of free
  EventPools_,             \* the pools of the context, oldest first: [Size_, Events_], Events_ a stack with its top last
  EventPoolSize_,          \* the capacity the next pool is created with
  EventsRequested_,        \* getEventFromPool calls so far
  EventsReused_,           \* getEventFromPool calls answered from an existing pool
  hist_holders,            \* per pooled event: how many acquirers hold it
  ContextMtx,              \* CHIPContextLevel0::ContextMtx: the thread that holds it, or NULL
  pool_pc,                 \* per host thread: "idle", "scan" or "create" inside getEventFromPool
  pool_idx,                \* per host thread: the pool its scan is at
  held,                    \* per mutex: the thread that holds it, or NULL
  lock_op,                 \* per host thread: the call it is in, or "none"
  lock_pc,                 \* per host thread: the step of the call it is at, 0 when in no call
  lock_calls,              \* calls made so far
  pending,                 \* 1 while the device has submitted work it has not completed
  trace,                   \* what the last call enqueued, allocated and waited for, in order
  hist_alloc_ok,           \* history: an allocation phase returned and no deallocate was called since
  last                     \* the last call: its name, argument, result and returned value

trackerVars ==
  <<total_mem_used, max_mem_used, dev_to_allocation_info, native_ptrs, native_live,
    recorded_args>>
moduleVars ==
  <<NDEBUG, chip_vars, DeviceVariablesAllocated, DeviceVariablesInitialized,
    asserts_skipped, trace, hist_alloc_ok>>
compileVars ==
  <<compiled, thread_pc, thread_module, thread_calls, hist_compile_started,
    hist_compile_finished>>
eventVars ==
  <<event_status, Actions_, hist_attached, hist_run>>
callbackVars ==
  <<queue_ops, dev_done, callbacks, callback_stack, event_monitor, monitors, host_pc>>
activeVars ==
  <<chip_queues, active_dev, active_ctx, active_q>>
execVars ==
  <<chip_execstack, exec_pc, exec_args>>
propsVars ==
  <<device_props, matched>>
argVars ==
  <<arg_data, offset_sizes, hist_args>>
kernelVars ==
  <<chip_kernels, hist_registered, LastEvent, hist_launches>>
queueVars ==
  <<cmd_list, cmd_done, mtx, call_pc, call_ev>>
entryVars ==
  <<dev_mtx, entry_pc, entry_op, entry_calls>>
threadVars ==
  <<ctx_mtx, alloc_pc, alloc_size, alloc_ptr, alloc_calls>>
poolVars ==
  <<EventPools_, EventPoolSize_, EventsRequested_, EventsReused_, hist_holders, ContextMtx, pool_pc, pool_idx>>
lockVars ==
  <<held, lock_op, lock_pc, lock_calls, pending>>
restVars ==
  <<activeVars, execVars, propsVars, argVars, kernelVars, queueVars, entryVars, threadVars, poolVars, lockVars>>
vars ==
  <<total_mem_used, max_mem_used, dev_to_allocation_info, native_ptrs, native_live,
    recorded_args,
    NDEBUG, chip_vars, DeviceVariablesAllocated, DeviceVariablesInitialized,
    asserts_skipped, compiled, thread_pc, thread_module, thread_calls,
    hist_compile_started, hist_compile_finished, event_status, Actions_,
    hist_attached, hist_run, queue_ops, dev_done, callbacks, callback_stack,
    event_monitor, monitors, host_pc, chip_queues, active_dev, active_ctx, active_q,
    chip_execstack, exec_pc, exec_args,
    device_props, matched,
    arg_data, offset_sizes, hist_args,
    chip_kernels, hist_registered, LastEvent, hist_launches,
    cmd_list, cmd_done, mtx, call_pc, call_ev,
    dev_mtx, entry_pc, entry_op, entry_calls,
    ctx_mtx, alloc_pc, alloc_size, alloc_ptr, alloc_calls,
    EventPools_, EventPoolSize_, EventsRequested_, EventsReused_, hist_holders, ContextMtx, pool_pc, pool_idx,
    held, lock_op, lock_pc, lock_calls, pending,
    trace, hist_alloc_ok, last>>

global_mem_size == GlobalMemSize

\* CHIPBackend::chip_devices: the devices initialize_() added; a pointer to
\* any other device object is ForeignDevice.
chip_devices == Devices
ForeignDevice == NumDevices + 1

\* The queues made for device d: the first is the default queue the device
\* got at initialization, the others are made by addQueue(flags, priority).
QueueId(d, k) == (d - 1) * NumQueues + k
DefaultQueue(d) == QueueId(d, 1)
QueuesOf(d) == { QueueId(d, k) : k \in 1 .. NumQueues }
AllQueues == UNION { QueuesOf(d) : d \in Devices }

\* CHIPContext *CHIPDevice::getContext() { return ctx; }: one context per
\* device, numbered after the queues so that the two are never confused.
getContext(d) == NumDevices * NumQueues + d

\* hipDeviceProp_t, reduced to its first two fields; findDeviceMatchingProps
\* treats each of the other twelve fields it looks at with the same code.
Props == [ major : 0 .. MaxMajor, minor : 0 .. MaxMinor ]
NoProps == [ major |-> 0, minor |-> 0 ]
PropFields == { "major", "minor" }

\* The program state as one record, threaded through the handlers.
State ==
  [ total_mem_used |-> total_mem_used,
    max_mem_used |-> max_mem_used,
    dev_to_allocation_info |-> dev_to_allocation_info,
    native_ptrs |-> native_ptrs,
    native_live |-> native_live,
    recorded_args |-> recorded_args,
    NDEBUG |-> NDEBUG,
    chip_vars |-> chip_vars,
    DeviceVariablesAllocated |-> DeviceVariablesAllocated,
    DeviceVariablesInitialized |-> DeviceVariablesInitialized,
    asserts_skipped |-> asserts_skipped,
    trace |-> << >> ]

SetFields(s) ==
  /\ total_mem_used' = s.total_mem_used
  /\ max_mem_used' = s.max_mem_used
  /\ dev_to_allocation_info' = s.dev_to_allocation_info
  /\ native_ptrs' = s.native_ptrs
  /\ native_live' = s.native_live
  /\ recorded_args' = s.recorded_args
  /\ NDEBUG' = s.NDEBUG
  /\ chip_vars' = s.chip_vars
  /\ DeviceVariablesAllocated' = s.DeviceVariablesAllocated
  /\ DeviceVariablesInitialized' = s.DeviceVariablesInitialized
  /\ asserts_skipped' = s.asserts_skipped
  /\ trace' = s.trace

SetState(s) ==
  /\ SetFields(s)
  /\ UNCHANGED compileVars
  /\ UNCHANGED eventVars
  /\ UNCHANGED callbackVars
  /\ UNCHANGED restVars

\* ------------------------------------------------- CHIPAllocationTracker
\* bool reserveMem(size_t bytes): true, or throws hipErrorMemoryAllocation.
reserveMemAdmits_NoUsed(s, bytes) ==
  bytes <= global_mem_size

reserveMemAdmits_Overflow(s, bytes) ==
  (s.total_mem_used + bytes) % SizeMod <= global_mem_size

reserveMemAdmits(s, bytes) ==
  bytes <= (global_mem_size - s.total_mem_used) % SizeMod

reserveMem(s, bytes) ==
  IF reserveMemAdmits(s, bytes)
  THEN LET used == (s.total_mem_used + bytes) % SizeMod
       IN [ st |-> [s EXCEPT !.total_mem_used = used,
                             !.max_mem_used = IF used > @ THEN used ELSE @],
            ret |-> "true" ]
  ELSE [ st |-> s, ret |-> "hipErrorMemoryAllocation" ]

releaseMemReservation_Clamp(s, bytes) ==
  IF s.total_mem_used >= bytes
  THEN [ st |-> [s EXCEPT !.total_mem_used = (@ - bytes) % SizeMod], ret |-> "true" ]
  ELSE [ st |-> [s EXCEPT !.total_mem_used = 0], ret |-> "false" ]

\* bool releaseMemReservation(unsigned long bytes)
releaseMemReservation(s, bytes) ==
  IF s.total_mem_used >= bytes
  THEN [ st |-> [s EXCEPT !.total_mem_used = (@ - bytes) % SizeMod], ret |-> "true" ]
  ELSE [ st |-> s, ret |-> "false" ]

\* void recordAllocation(void *dev_ptr, size_t size_)
recordAllocation(s, dev_ptr, size) ==
  [s EXCEPT !.dev_to_allocation_info =
     [p \in (DOMAIN @) \cup {dev_ptr} |->
        IF p = dev_ptr THEN [base_ptr |-> dev_ptr, size |-> size] ELSE @[p]]]

\* allocation_info *getByDevPtr(const void *dev_ptr): the record, or throws hipErrorTbd.
getByDevPtrFound(s, dev_ptr) == dev_ptr \in DOMAIN s.dev_to_allocation_info

getByDevPtr_Default(s, dev_ptr) ==
  IF getByDevPtrFound(s, dev_ptr)
  THEN [ ret |-> "found", info |-> s.dev_to_allocation_info[dev_ptr] ]
  ELSE [ ret |-> "found", info |-> [base_ptr |-> NULL, size |-> 0] ]

getByDevPtr(s, dev_ptr) ==
  IF getByDevPtrFound(s, dev_ptr)
  THEN [ ret |-> "found", info |-> s.dev_to_allocation_info[dev_ptr] ]
  ELSE [ ret |-> "hipErrorTbd", info |-> [base_ptr |-> NULL, size |-> 0] ]

\* ------------------------------------------------------------ CHIPContext
\* allocate_(size, alignment, mem_type) is the backend's allocator: it answers
\* with nullptr or with the lowest address it does not hold.
NativeAllocAnswers(s) ==
  {NULL} \cup { p \in s.native_ptrs \ s.native_live :
                 \A q \in s.native_ptrs \ s.native_live : p <= q }

allocateRollback_None(s, allocated_ptr, size) == s

\* The reservation is given back when the native allocation failed.
allocateRollback(s, allocated_ptr, size) ==
  IF allocated_ptr = NULL THEN releaseMemReservation(s, size).st ELSE s

\* void *CHIPContext::allocate(size_t size, size_t alignment, CHIPMemoryType)
\* The set of outcomes [st, ret, ptr].
allocate(s, size) ==
  LET r == reserveMem(s, size)
  IN IF r.ret # "true"
     THEN { [ st |-> s, ret |-> r.ret, ptr |-> NULL ] }
     ELSE { [ st |-> recordAllocation(
                       allocateRollback(
                         [r.st EXCEPT !.native_live =
                                        IF p = NULL THEN @ ELSE @ \cup {p},
                                      !.recorded_args =
                                        {a \in @ : a[1] # p} \cup {<<p, size>>}],
                         p, size),
                       p, size),
              ret |-> "returned",
              ptr |-> p ] : p \in NativeAllocAnswers(r.st) }

\* free_(ptr) is the backend's release.  Releasing a pointer the allocator does
\* not hold is outside its contract: it may return or raise an error.
NativeFreeAnswers(s, ptr) ==
  IF ptr \in s.native_live THEN {"hipSuccess"} ELSE {"hipSuccess", "hipErrorTbd"}

\* hipError_t CHIPContext::free(void *ptr): the set of outcomes [st, ret].
free(s, ptr) ==
  LET g == getByDevPtr(s, ptr)
  IN IF g.ret # "found"
     THEN { [ st |-> s, ret |-> g.ret ] }
     ELSE LET s1 == releaseMemReservation(s, g.info.size).st
              s2 == [s1 EXCEPT !.native_live = @ \ {ptr}]
          IN { [ st |-> s2, ret |-> a ] : a \in NativeFreeAnswers(s1, ptr) }

\* hipError_t CHIPContext::findPointerInfo(pbase, psize, dptr)
findPointerInfo(s, dptr) ==
  LET g == getByDevPtr(s, dptr)
  IN IF g.ret # "found"
     THEN [ ret |-> g.ret, pbase |-> NULL, psize |-> 0 ]
     ELSE [ ret |-> "hipSuccess", pbase |-> g.info.base_ptr, psize |-> g.info.size ]

\* ------------------------------------------- CHIPModule: device variables
\* An entry of the trace: a shadow kernel launched (info, bind, init), a copy
\* enqueued (memCopyAsync), a call of Context::allocate or a Context::free
\* that returned (allocate, free), or a blocking Queue::finish (finish, i = its
\* source line).  A discrepancy entry notes that the size read back for a
\* variable is not the size it was registered with.
\* m is the module, i the index of the variable (0: the info buffer).
Ev(kind, m, i) == [ ev |-> kind, m |-> m, i |-> i ]

Log(s, e) == [s EXCEPT !.trace = Append(@, e)]

\* A CHIPDeviceVar as registered: Size, no device address, no initializer known.
DeviceVar(size) ==
  [ Size |-> size, DevAddr |-> NULL, HasInitializer |-> FALSE ]

NumVars(s, m) == Len(s.chip_vars[m])

\* size_t VarInfoBufSize = sizeof(CHIPVarInfo) * chip_vars.size()
VarInfoBufSize(s, m) == (VarInfoBytes * NumVars(s, m)) % SizeMod

queueInfoKernels_None(s, m, i) == s

\* for (auto *Var : chip_vars) queueVariableInfoShadowKernel(...), in order
RECURSIVE queueInfoKernels(_, _, _)
queueInfoKernels(s, m, i) ==
  IF i > NumVars(s, m) THEN s
  ELSE queueInfoKernels(Log(s, Ev("info", m, i)), m, i + 1)

\* What the info kernel of a variable registered with `size` can report: the
\* size the compiled module gives the variable (the registered one, or
\* another), and whether the variable has an initializer.
ReportedFor(size) == [ size : {size, size + 1}, hasInit : BOOLEAN ]

\* What the host reads back in VarInfoBufH after memCopyAsync and finish: for
\* each variable what its info kernel reported.  With a null device buffer
\* (reachable only with assert compiled out) the kernels and the copy go
\* through a null pointer: the device faults, or nothing is written and the
\* host buffer keeps the zeros std::make_unique filled it with.
InfoValues == [ size : 0 .. (MaxVarSize + 1), hasInit : BOOLEAN ]

ReadBackAnswers(s, m, VarInfoBufD) ==
  IF VarInfoBufD # NULL
  THEN { H \in [1 .. NumVars(s, m) -> InfoValues] :
           \A i \in 1 .. NumVars(s, m) : H[i] \in ReportedFor(s.chip_vars[m][i].Size) }
  ELSE { [i \in 1 .. NumVars(s, m) |-> [ size |-> 0, hasInit |-> FALSE ]] }

\* assert(cond) in state s: whether the handler goes on, and the state it goes
\* on in.  A false condition aborts the process; with assert compiled out it
\* is run past and counted.
assert(s, cond) ==
  IF cond THEN [ passed |-> TRUE, st |-> s ]
  ELSE IF s.NDEBUG THEN [ passed |-> TRUE, st |-> [s EXCEPT !.asserts_skipped = @ + 1] ]
  ELSE [ passed |-> FALSE, st |-> s ]

Aborted(s) == { [ st |-> s, ret |-> "abort" ] }

\* DeviceVariablesAllocated |= chip_vars.empty()
allocateMarksEmpty_Missing(s, m) == s

allocateMarksEmpty(s, m) ==
  [s EXCEPT !.DeviceVariablesAllocated[m] = @ \/ (s.chip_vars[m] = << >>)]

\* if (DeviceVariablesAllocated) return hipSuccess
allocateReturnsEarly_Never(s, m) == FALSE

allocateReturnsEarly(s, m) == s.DeviceVariablesAllocated[m]

\* The second loop of allocateDeviceVariablesNoLock, from variable i on:
\* the size assertion, allocate, setDevAddr, markHasInitializer, the
\* size-discrepancy assertion, the bind kernel (which asserts the address).
RECURSIVE allocateVariables(_, _, _, _)
allocateVariables(s, m, i, VarInfoBufH) ==
  IF i > NumVars(s, m) THEN { [ st |-> s, ret |-> "hipSuccess" ] }
  ELSE
    LET Size == VarInfoBufH[i].size
        HasInitializer == VarInfoBufH[i].hasInit
        a1 == assert(IF Size # s.chip_vars[m][i].Size
                     THEN Log(s, Ev("discrepancy", m, i)) ELSE s,
                     Size # 0)
    IN IF ~a1.passed THEN Aborted(a1.st)
       ELSE UNION {
         IF a.ret # "returned"
         THEN { [ st |-> Log(a.st, Ev("allocate", m, i)), ret |-> a.ret ] }
         ELSE
           LET s1 == [Log(a.st, Ev("allocate", m, i)) EXCEPT
                        !.chip_vars[m][i].DevAddr = a.ptr,
                        !.chip_vars[m][i].HasInitializer = HasInitializer]
               a2 == assert(s1, s1.chip_vars[m][i].Size = Size)
               a3 == assert(a2.st, a.ptr # NULL)
           IN IF ~a2.passed THEN Aborted(a2.st)
              ELSE IF ~a3.passed THEN Aborted(a3.st)
              ELSE allocateVariables(Log(a3.st, Ev("bind", m, i)), m, i + 1, VarInfoBufH)
         : a \in allocate(a1.st, Size) }

\* hipError_t CHIPModule::allocateDeviceVariablesNoLock(Device, Queue)
\* The set of outcomes [st, ret]: ret is hipSuccess, the error thrown, or abort
\* (an assertion failed or the device faulted: the process has ended).
allocateDeviceVariablesNoLock(s, m) ==
  LET s0 == allocateMarksEmpty(s, m)
  IN IF allocateReturnsEarly(s0, m)
     THEN { [ st |-> s0, ret |-> "hipSuccess" ] }
     ELSE UNION {
       IF b.ret # "returned"
       THEN { [ st |-> Log(b.st, Ev("allocate", m, 0)), ret |-> b.ret ] }
       ELSE
         LET a1 == assert(Log(b.st, Ev("allocate", m, 0)), b.ptr # NULL)
         IN IF ~a1.passed THEN Aborted(a1.st)
            ELSE
              LET s2 == Log(Log(queueInfoKernels(a1.st, m, 1), Ev("memCopyAsync", m, 0)),
                            Ev("finish", m, 279))
              IN (IF b.ptr = NULL THEN Aborted(s2) ELSE {})
                 \cup
                 UNION {
                   { IF o.ret # "hipSuccess" THEN o
                     ELSE [ st |-> [Log(o.st, Ev("finish", m, 297)) EXCEPT
                                      !.DeviceVariablesAllocated[m] = TRUE],
                            ret |-> "hipSuccess" ]
                     : o \in allocateVariables(s2, m, 1, H) }
                   : H \in ReadBackAnswers(s2, m, b.ptr) }
       : b \in allocate(s0, VarInfoBufSize(s0, m)) }

\* for (auto *Var : chip_vars) if (Var->hasInitializer()) queueVariableInitShadowKernel(...)
RECURSIVE queueInitKernels(_, _, _)
queueInitKernels(s, m, i) ==
  IF i > NumVars(s, m) THEN s
  ELSE queueInitKernels(
         IF s.chip_vars[m][i].HasInitializer THEN Log(s, Ev("init", m, i)) ELSE s,
         m, i + 1)

\* allocateDeviceVariablesNoLock(Device, Queue), the first statement of
\* initializeDeviceVariablesNoLock
initializeAllocates_Skipped(s, m) == { [ st |-> s, ret |-> "hipSuccess" ] }

initializeAllocates(s, m) == allocateDeviceVariablesNoLock(s, m)

\* void CHIPModule::initializeDeviceVariablesNoLock(Device, Queue)
initializeDeviceVariablesNoLock(s, m) ==
  { IF a.ret # "hipSuccess" THEN a
    ELSE
      LET s0 == [a.st EXCEPT !.DeviceVariablesInitialized[m] =
                               @ \/ (a.st.chip_vars[m] = << >>)]
          a1 == assert(s0, s0.DeviceVariablesAllocated[m])
      IN IF s0.DeviceVariablesInitialized[m]
         THEN IF ~a1.passed
              THEN [ st |-> a1.st, ret |-> "abort" ]
              ELSE [ st |-> a1.st, ret |-> "hipSuccess" ]
         ELSE
           LET s1 == queueInitKernels(s0, m, 1)
               QueuedKernels == \E i \in 1 .. NumVars(s0, m) : s0.chip_vars[m][i].HasInitializer
               s2 == IF QueuedKernels THEN Log(s1, Ev("finish", m, 324)) ELSE s1
           IN [ st |-> [s2 EXCEPT !.DeviceVariablesInitialized[m] = TRUE],
                ret |-> "hipSuccess" ]
    : a \in initializeAllocates(s, m) }

invalidateDeviceVariablesNoLock_Deallocates(s, m) ==
  { [ st |-> [s EXCEPT !.DeviceVariablesInitialized[m] = FALSE,
                       !.DeviceVariablesAllocated[m] = FALSE],
      ret |-> "hipSuccess" ] }

invalidateDeviceVariablesNoLock_Keeps(s, m) == { [ st |-> s, ret |-> "hipSuccess" ] }

\* void CHIPModule::invalidateDeviceVariablesNoLock()
invalidateDeviceVariablesNoLock(s, m) ==
  { [ st |-> [s EXCEPT !.DeviceVariablesInitialized[m] = FALSE], ret |-> "hipSuccess" ] }

\* The loop of deallocateDeviceVariablesNoLock, from variable i on.
RECURSIVE freeVariables(_, _, _)
freeVariables(s, m, i) ==
  IF i > NumVars(s, m) THEN { [ st |-> s, ret |-> "hipSuccess" ] }
  ELSE UNION {
    IF f.ret # "hipSuccess"
    THEN { [ st |-> f.st, ret |-> f.ret ] }
    ELSE freeVariables(
           [Log(f.st, Ev("free", m, i)) EXCEPT !.chip_vars[m][i].DevAddr = NULL],
           m, i + 1)
    : f \in free(s, s.chip_vars[m][i].DevAddr) }

\* void CHIPModule::deallocateDeviceVariablesNoLock(Device)
deallocateDeviceVariablesNoLock(s, m) ==
  { IF o.ret # "hipSuccess" THEN o
    ELSE [ st |-> [o.st EXCEPT !.DeviceVariablesAllocated[m] = FALSE], ret |-> "hipSuccess" ]
    : o \in UNION { freeVariables(i.st, m, 1) : i \in invalidateDeviceVariablesNoLock(s, m) } }

\* ------------------------------------------- CHIPDevice: device variables
ModuleCall(op, s, m) ==
  CASE op = "allocateDeviceVariables" -> allocateDeviceVariablesNoLock(s, m)
    [] op = "initializeDeviceVariables" -> initializeDeviceVariablesNoLock(s, m)
    [] op = "invalidateDeviceVariables" -> invalidateDeviceVariablesNoLock(s, m)
    [] op = "deallocateDeviceVariables" -> deallocateDeviceVariablesNoLock(s, m)

\* CHIPDevice::allocateDeviceVariables and its three siblings: under the
\* device's mutex, the module's NoLock function for each module of ChipModules
\* in turn; an exception ends the loop.
RECURSIVE forEachModule(_, _, _)
forEachModule(op, s, m) ==
  IF m > NumModules THEN { [ st |-> s, ret |-> "hipSuccess" ] }
  ELSE UNION {
    IF o.ret # "hipSuccess" THEN { o } ELSE forEachModule(op, o.st, m + 1)
    : o \in ModuleCall(op, s, m) }

\* void CHIPDevice::registerDeviceVariable(ModuleStr, HostPtr, Name, Size)
registerDeviceVariable(s, m, size) ==
  [s EXCEPT !.chip_vars[m] = Append(@, DeviceVar(size))]

\* ----------------------------------------------------------------- actions
\* The record of a call.  "again" tells a call from an identical call right
\* before it, so that a repeated call is a step of its own.
CallRecord(op, arg, ret, ptr, size) ==
  [ op |-> op, arg |-> arg, ret |-> ret, ptr |-> ptr, size |-> size, again |-> FALSE ]

Call(op, arg, ret, ptr, size) ==
  LET c == CallRecord(op, arg, ret, ptr, size)
  IN IF c = [last EXCEPT !.again = FALSE] THEN [c EXCEPT !.again = ~last.again] ELSE c

lockAdmits_Always(holder) == TRUE

\* std::lock_guard<std::mutex> Lock(mtx) goes on when no thread holds mtx.
lockAdmits(holder) == holder = NULL

InitProgram ==
  /\ total_mem_used = 0
  /\ max_mem_used = 0
  /\ dev_to_allocation_info = << >>
  /\ native_live = {}
  /\ recorded_args = {}
  /\ chip_vars = [m \in Modules |-> << >>]
  /\ DeviceVariablesAllocated = [m \in Modules |-> FALSE]
  /\ DeviceVariablesInitialized = [m \in Modules |-> FALSE]
  /\ asserts_skipped = 0
  /\ compiled = [m \in Modules |-> "init"]
  /\ thread_pc = [t \in Threads |-> "idle"]
  /\ thread_module = [t \in Threads |-> 1]
  /\ thread_calls = [t \in Threads |-> 0]
  /\ hist_compile_started = [m \in Modules |-> 0]
  /\ hist_compile_finished = [m \in Modules |-> 0]
  /\ event_status = [e \in Events |-> "INIT"]
  /\ Actions_ = [e \in Events |-> << >>]
  /\ hist_attached = [e \in Events |-> 0]
  /\ hist_run = [e \in Events |-> << >>]
  /\ queue_ops = << >>
  /\ dev_done = 0
  /\ callbacks = << >>
  /\ callback_stack = << >>
  /\ event_monitor = NULL
  /\ monitors = << >>
  /\ host_pc = [t \in HostThreads |-> "idle"]
  /\ chip_queues = [d \in Devices |-> << DefaultQueue(d) >>]
  /\ active_dev = 1
  /\ active_ctx = getContext(1)
  /\ active_q = DefaultQueue(1)
  /\ chip_execstack = << >>
  /\ exec_pc = [t \in HostThreads |-> "idle"]
  /\ exec_args = [t \in HostThreads |-> 0]
  /\ matched = [called |-> FALSE, properties |-> NoProps, matched_device |-> NULL]
  /\ arg_data = [size |-> 0, bytes |-> << >>]
  /\ offset_sizes = << >>
  /\ hist_args = {}
  /\ chip_kernels = << >>
  /\ hist_registered = {}
  /\ LastEvent = NULL
  /\ hist_launches = 0
  /\ cmd_list = << >>
  /\ cmd_done = 0
  /\ mtx = NULL
  /\ call_pc = [t \in HostThreads |-> "idle"]
  /\ call_ev = [t \in HostThreads |-> NULL]
  /\ dev_mtx = NULL
  /\ entry_pc = [t \in HostThreads |-> "idle"]
  /\ entry_op = [t \in HostThreads |-> "none"]
  /\ entry_calls = 0
  /\ ctx_mtx = NULL
  /\ alloc_pc = [t \in HostThreads |-> "idle"]
  /\ alloc_size = [t \in HostThreads |-> 0]
  /\ alloc_ptr = [t \in HostThreads |-> NULL]
  /\ alloc_calls = 0
  /\ EventPools_ = << >>
  /\ EventPoolSize_ = 1
  /\ EventsRequested_ = 0
  /\ EventsReused_ = 0
  /\ hist_holders = [e \in PoolEventIds |-> 0]
  /\ ContextMtx = NULL
  /\ pool_pc = [t \in HostThreads |-> "idle"]
  /\ pool_idx = [t \in HostThreads |-> 0]
  /\ held = [m \in Mutexes |-> NULL]
  /\ lock_op = [t \in HostThreads |-> "none"]
  /\ lock_pc = [t \in HostThreads |-> 0]
  /\ lock_calls = 0
  /\ pending = 0
  /\ trace = << >>
  /\ hist_alloc_ok = FALSE
  /\ last = CallRecord("init", 0, "none", NULL, 0)

\* The tracker and the context have no assertion that can fail: the build
\* does not matter to them.
Init ==
  /\ InitProgram
  /\ native_ptrs = Ptrs
  /\ NDEBUG = FALSE
  /\ device_props = [d \in Devices |-> NoProps]

ReserveMem ==
  \E bytes \in SizeT :
    LET r == reserveMem(State, bytes)
    IN /\ SetState(r.st)
       /\ UNCHANGED hist_alloc_ok
       /\ last' = Call("reserveMem", bytes, r.ret, NULL, 0)

ReleaseMemReservation ==
  \E bytes \in SizeT :
    LET r == releaseMemReservation(State, bytes)
    IN /\ SetState(r.st)
       /\ UNCHANGED hist_alloc_ok
       /\ last' = Call("releaseMemReservation", bytes, r.ret, NULL, 0)

Allocate ==
  \E size \in 1 .. MaxAllocSize :
    \E o \in allocate(State, size) :
      /\ SetState(o.st)
      /\ UNCHANGED hist_alloc_ok
      /\ last' = Call("allocate", size, o.ret, o.ptr, size)

Free ==
  \E ptr \in {NULL} \cup native_ptrs :
    \E o \in free(State, ptr) :
      /\ SetState(o.st)
      /\ UNCHANGED hist_alloc_ok
      /\ last' = Call("free", ptr, o.ret, ptr, 0)

FindPointerInfo ==
  \E dptr \in {NULL} \cup native_ptrs :
    LET r == findPointerInfo(State, dptr)
    IN /\ SetState(State)
       /\ UNCHANGED hist_alloc_ok
       /\ last' = Call("findPointerInfo", dptr, r.ret, r.pbase, r.psize)

\* Direct use of one tracker.
Next ==
  \/ ReserveMem
  \/ ReleaseMemReservation

Spec == Init /\ [][Next]_vars

\* Use of the tracker through the context that owns the device.
NextContext ==
  \/ Allocate
  \/ Free
  \/ FindPointerInfo

SpecContext == Init /\ [][NextContext]_vars

\* CHIPContext::allocated_ptrs: the pointers allocate_() handed out and
\* free_() has not taken back.
allocated_ptrs(s) == s.native_live

\* void CHIPContext::reset(): free_ on every pointer of allocated_ptrs,
\* releaseMemReservation(total_mem_used) on the device, allocated_ptrs.clear().
\* Nothing is waited for and the tracker's dev_to_allocation_info is not
\* touched.
reset(s) ==
  LET s1 == [s EXCEPT !.native_live = @ \ allocated_ptrs(s)]
  IN releaseMemReservation(s1, s1.total_mem_used).st

Reset ==
  /\ SetState(reset(State))
  /\ UNCHANGED hist_alloc_ok
  /\ last' = Call("reset", 0, "void", NULL, 0)

NextReset ==
  \/ Allocate
  \/ Free
  \/ FindPointerInfo
  \/ Reset

SpecReset == Init /\ [][NextReset]_vars

\* --------------- Context::allocate, free and reset called by several threads
\* A call is followed statement by statement.  reserveMem and
\* releaseMemReservation hold the tracker's mutex from their first statement
\* to their last and are one step each; recordAllocation and getByDevPtr
\* take no mutex, so a thread stays inside them for a step.
ThreadFrame ==
  UNCHANGED <<compileVars, eventVars, callbackVars, activeVars, execVars,
              propsVars, argVars, kernelVars, queueVars, entryVars, poolVars, lockVars>>

ThreadAt(t, pc, size, ptr) ==
  /\ alloc_pc' = [alloc_pc EXCEPT ![t] = pc]
  /\ alloc_size' = [alloc_size EXCEPT ![t] = size]
  /\ alloc_ptr' = [alloc_ptr EXCEPT ![t] = ptr]

Keep == [State EXCEPT !.trace = trace]

\* allocate: std::lock_guard<std::mutex> Lock(mtx) on the context
AllocateLock(t) ==
  \E size \in 1 .. MaxAllocSize :
    /\ alloc_pc[t] = "idle"
    /\ alloc_calls < MaxThreadCalls
    /\ lockAdmits(ctx_mtx)
    /\ ctx_mtx' = t
    /\ alloc_calls' = alloc_calls + 1
    /\ ThreadAt(t, "reserveMem", size, NULL)
    /\ SetFields(Keep)
    /\ UNCHANGED <<hist_alloc_ok, last>>
    /\ ThreadFrame

\* allocate: reserveMem(size), which throws when the memory is not there
AllocateReserve(t) ==
  /\ alloc_pc[t] = "reserveMem"
  /\ LET r == reserveMem(Keep, alloc_size[t])
     IN /\ SetFields(r.st)
        /\ IF r.ret = "true"
           THEN /\ ThreadAt(t, "allocate_", alloc_size[t], NULL)
                /\ UNCHANGED <<ctx_mtx, last>>
           ELSE /\ ThreadAt(t, "idle", 0, NULL)
                /\ ctx_mtx' = NULL
                /\ last' = Call("allocate", t, r.ret, NULL, alloc_size[t])
  /\ UNCHANGED hist_alloc_ok
  /\ UNCHANGED alloc_calls
  /\ ThreadFrame

\* allocate: allocate_(size, alignment, mem_type), and the reservation given
\* back when it answered nullptr
AllocateNative(t) ==
  /\ alloc_pc[t] = "allocate_"
  /\ \E p \in NativeAllocAnswers(Keep) :
       /\ SetFields(allocateRollback(
                      [Keep EXCEPT !.native_live = IF p = NULL THEN @ ELSE @ \cup {p},
                                   !.recorded_args =
                                      {a \in @ : a[1] # p} \cup {<<p, alloc_size[t]>>}],
                      p, alloc_size[t]))
       /\ ThreadAt(t, "recordAllocation", alloc_size[t], p)
  /\ UNCHANGED <<ctx_mtx, hist_alloc_ok, last>>
  /\ UNCHANGED alloc_calls
  /\ ThreadFrame

\* allocate: recordAllocation(allocated_ptr, size) has written the map; return
AllocateRecord(t) ==
  /\ alloc_pc[t] = "recordAllocation"
  /\ SetFields(recordAllocation(Keep, alloc_ptr[t], alloc_size[t]))
  /\ ThreadAt(t, "idle", 0, NULL)
  /\ ctx_mtx' = NULL
  /\ last' = Call("allocate", t, "returned", alloc_ptr[t], alloc_size[t])
  /\ UNCHANGED hist_alloc_ok
  /\ UNCHANGED alloc_calls
  /\ ThreadFrame

\* free: enters getByDevPtr(ptr); no mutex is taken
FreeLookup(t) ==
  \E ptr \in {NULL} \cup native_ptrs :
    /\ alloc_pc[t] = "idle"
    /\ alloc_calls < MaxThreadCalls
    /\ alloc_calls' = alloc_calls + 1
    /\ ThreadAt(t, "getByDevPtr", 0, ptr)
    /\ SetFields(Keep)
    /\ UNCHANGED <<ctx_mtx, hist_alloc_ok, last>>
    /\ ThreadFrame

\* What getByDevPtr answers.  While another thread is inside
\* recordAllocation the map is read during a write: the lookup may miss, or
\* see the record that is being written.
LookupAnswers(t) ==
  { getByDevPtr(Keep, alloc_ptr[t]) }
  \cup UNION { { getByDevPtr(recordAllocation(Keep, alloc_ptr[u], alloc_size[u]), alloc_ptr[t]),
                 [ ret |-> "hipErrorTbd", info |-> [base_ptr |-> NULL, size |-> 0] ] }
               : u \in { v \in HostThreads : v # t /\ alloc_pc[v] = "recordAllocation" } }

\* free: getByDevPtr returns the record or throws
FreeFound(t) ==
  /\ alloc_pc[t] = "getByDevPtr"
  /\ \E g \in LookupAnswers(t) :
       IF g.ret = "found"
       THEN /\ ThreadAt(t, "releaseMemReservation", g.info.size, alloc_ptr[t])
            /\ UNCHANGED last
       ELSE /\ ThreadAt(t, "idle", 0, NULL)
            /\ last' = Call("free", t, g.ret, alloc_ptr[t], 0)
  /\ SetFields(Keep)
  /\ UNCHANGED <<ctx_mtx, hist_alloc_ok>>
  /\ UNCHANGED alloc_calls
  /\ ThreadFrame

\* free: releaseMemReservation(info->size), free_(ptr), return
FreeRelease(t) ==
  /\ alloc_pc[t] = "releaseMemReservation"
  /\ LET s1 == releaseMemReservation(Keep, alloc_size[t]).st
     IN \E a \in NativeFreeAnswers(s1, alloc_ptr[t]) :
          /\ SetFields([s1 EXCEPT !.native_live = @ \ {alloc_ptr[t]}])
          /\ last' = Call("free", t, a, alloc_ptr[t], alloc_size[t])
  /\ ThreadAt(t, "idle", 0, NULL)
  /\ UNCHANGED <<ctx_mtx, hist_alloc_ok>>
  /\ UNCHANGED alloc_calls
  /\ ThreadFrame

\* reset: takes no mutex either; followed as one step
ThreadReset(t) ==
  /\ alloc_pc[t] = "idle"
  /\ alloc_calls < MaxThreadCalls
  /\ alloc_calls' = alloc_calls + 1
  /\ SetFields(reset(Keep))
  /\ last' = Call("reset", t, "void", NULL, 0)
  /\ UNCHANGED <<ctx_mtx, alloc_pc, alloc_size, alloc_ptr, hist_alloc_ok>>
  /\ ThreadFrame

NextThreads ==
  \/ \E t \in HostThreads : AllocateLock(t)
  \/ \E t \in HostThreads : AllocateReserve(t)
  \/ \E t \in HostThreads : AllocateNative(t)
  \/ \E t \in HostThreads : AllocateRecord(t)
  \/ \E t \in HostThreads : FreeLookup(t)
  \/ \E t \in HostThreads : FreeFound(t)
  \/ \E t \in HostThreads : FreeRelease(t)
  \/ \E t \in HostThreads : ThreadReset(t)

SpecThreads == Init /\ [][NextThreads]_vars

\* The process runs until an assertion fails.  A build without assert() is
\* followed to the end of the first call that runs past a false assertion: the
\* state it is in then is one the program was not written for.
Running ==
  /\ last.ret # "abort"
  /\ asserts_skipped = 0

RegisterDeviceVariable ==
  /\ Running
  /\ \E m \in Modules, size \in 1 .. MaxVarSize :
       /\ Len(chip_vars[m]) < MaxVars
       /\ SetState(registerDeviceVariable(State, m, size))
       /\ UNCHANGED hist_alloc_ok
       /\ last' = Call("registerDeviceVariable", m, "returned", NULL, size)

AllocateDeviceVariables ==
  /\ Running
  /\ \E o \in forEachModule("allocateDeviceVariables", State, 1) :
       /\ SetState(o.st)
       /\ hist_alloc_ok' = (o.ret = "hipSuccess")
       /\ last' = Call("allocateDeviceVariables", 0, o.ret, NULL, 0)

InitializeDeviceVariables ==
  /\ Running
  /\ \E o \in forEachModule("initializeDeviceVariables", State, 1) :
       /\ SetState(o.st)
       /\ hist_alloc_ok' = (o.ret = "hipSuccess")
       /\ last' = Call("initializeDeviceVariables", 0, o.ret, NULL, 0)

InvalidateDeviceVariables ==
  /\ Running
  /\ \E o \in forEachModule("invalidateDeviceVariables", State, 1) :
       /\ SetState(o.st)
       /\ UNCHANGED hist_alloc_ok
       /\ last' = Call("invalidateDeviceVariables", 0, o.ret, NULL, 0)

DeallocateDeviceVariables ==
  /\ Running
  /\ \E o \in forEachModule("deallocateDeviceVariables", State, 1) :
       /\ SetState(o.st)
       /\ hist_alloc_ok' = FALSE
       /\ last' = Call("deallocateDeviceVariables", 0, o.ret, NULL, 0)

\* The device-variable lifecycle of the modules of one device, in either build.
InitVariables ==
  /\ InitProgram
  /\ native_ptrs = VarPtrs
  /\ NDEBUG \in BOOLEAN
  /\ device_props = [d \in Devices |-> NoProps]

NextVariables ==
  \/ RegisterDeviceVariable
  \/ AllocateDeviceVariables
  \/ InitializeDeviceVariables
  \/ InvalidateDeviceVariables
  \/ DeallocateDeviceVariables

SpecVariables == InitVariables /\ [][NextVariables]_vars

\* ------------------------- CHIPDevice: the entry points under the device mutex
EntryOps ==
  { "allocateDeviceVariables", "initializeDeviceVariables",
    "invalidateDeviceVariables", "deallocateDeviceVariables" }

EntryFrame ==
  UNCHANGED <<compileVars, eventVars, callbackVars, activeVars, execVars, propsVars, argVars,
              kernelVars, queueVars, threadVars, poolVars, lockVars>>

\* A host thread calls one of the four entry points ...
EntryCall(t) ==
  \E op \in EntryOps :
    /\ Running
    /\ entry_pc[t] = "idle"
    /\ entry_calls < MaxEntryCalls
    /\ entry_calls' = entry_calls + 1
    /\ entry_pc' = [entry_pc EXCEPT ![t] = "called"]
    /\ entry_op' = [entry_op EXCEPT ![t] = op]
    /\ SetFields([State EXCEPT !.trace = trace])
    /\ UNCHANGED <<dev_mtx, hist_alloc_ok, last>>
    /\ EntryFrame

\* ... takes the device's mutex ...
EntryLock(t) ==
  /\ Running
  /\ entry_pc[t] = "called"
  /\ lockAdmits(dev_mtx)
  /\ dev_mtx' = t
  /\ entry_pc' = [entry_pc EXCEPT ![t] = "locked"]
  /\ SetFields([State EXCEPT !.trace = trace])
  /\ UNCHANGED <<entry_op, entry_calls, hist_alloc_ok, last>>
  /\ EntryFrame

\* ... runs the NoLock function of every module and returns, which releases
\* the mutex (also when the call ends by an exception).
EntryRun(t) ==
  /\ Running
  /\ entry_pc[t] = "locked"
  /\ \E o \in forEachModule(entry_op[t], State, 1) :
       /\ SetFields(o.st)
       /\ last' = Call(entry_op[t], t, o.ret, NULL, 0)
  /\ dev_mtx' = IF dev_mtx = t THEN NULL ELSE dev_mtx
  /\ entry_pc' = [entry_pc EXCEPT ![t] = "idle"]
  /\ entry_op' = [entry_op EXCEPT ![t] = "none"]
  /\ UNCHANGED <<entry_calls, hist_alloc_ok>>
  /\ EntryFrame

NextEntry ==
  \/ RegisterDeviceVariable
  \/ \E t \in HostThreads : EntryCall(t)
  \/ \E t \in HostThreads : EntryLock(t)
  \/ \E t \in HostThreads : EntryRun(t)

SpecEntry == Init /\ [][NextEntry]_vars

\* -------------------------------------------- CHIPModule: compileOnce
\* std::call_once(compiled, &CHIPModule::compile, this, chip_dev): the thread
\* that finds the flag unset runs compile, a thread that finds another thread
\* running it waits, and a thread that finds the flag set returns at once.
\* CHIPModule::compile is the backend's: it is taken to compile the module and
\* return.
CallOnceMayRun_Racy(m) == compiled[m] # "done"

CallOnceMayRun(m) == compiled[m] = "init"

\* A thread calls module->compileOnce(chip_dev).
CompileOnceCall ==
  \E t \in Threads, m \in Modules :
    /\ thread_pc[t] = "idle"
    /\ thread_calls[t] < MaxCalls
    /\ thread_pc' = [thread_pc EXCEPT ![t] = "call_once"]
    /\ thread_module' = [thread_module EXCEPT ![t] = m]
    /\ thread_calls' = [thread_calls EXCEPT ![t] = @ + 1]
    /\ UNCHANGED <<compiled, hist_compile_started, hist_compile_finished>>
    /\ UNCHANGED <<trackerVars, moduleVars, eventVars, callbackVars, restVars, last>>

\* call_once finds the flag unset: this thread enters CHIPModule::compile.
CallOnceActive ==
  \E t \in Threads :
    /\ thread_pc[t] = "call_once"
    /\ CallOnceMayRun(thread_module[t])
    /\ compiled' = [compiled EXCEPT ![thread_module[t]] = "active"]
    /\ thread_pc' = [thread_pc EXCEPT ![t] = "compile"]
    /\ hist_compile_started' = [hist_compile_started EXCEPT ![thread_module[t]] = @ + 1]
    /\ UNCHANGED <<thread_module, thread_calls, hist_compile_finished>>
    /\ UNCHANGED <<trackerVars, moduleVars, eventVars, callbackVars, restVars, last>>

\* CHIPModule::compile returns: call_once sets the flag and returns.
CompileReturns ==
  \E t \in Threads :
    /\ thread_pc[t] = "compile"
    /\ compiled' = [compiled EXCEPT ![thread_module[t]] = "done"]
    /\ thread_pc' = [thread_pc EXCEPT ![t] = "returned"]
    /\ hist_compile_finished' = [hist_compile_finished EXCEPT ![thread_module[t]] = @ + 1]
    /\ UNCHANGED <<thread_module, thread_calls, hist_compile_started>>
    /\ UNCHANGED <<trackerVars, moduleVars, eventVars, callbackVars, restVars, last>>

\* call_once finds the flag set: compileOnce returns without calling compile.
CallOncePassive ==
  \E t \in Threads :
    /\ thread_pc[t] = "call_once"
    /\ compiled[thread_module[t]] = "done"
    /\ thread_pc' = [thread_pc EXCEPT ![t] = "returned"]
    /\ UNCHANGED <<compiled, thread_module, thread_calls, hist_compile_started,
                   hist_compile_finished>>
    /\ UNCHANGED <<trackerVars, moduleVars, eventVars, callbackVars, restVars, last>>

\* The caller of compileOnce goes on.
ThreadContinues ==
  \E t \in Threads :
    /\ thread_pc[t] = "returned"
    /\ thread_pc' = [thread_pc EXCEPT ![t] = "idle"]
    /\ UNCHANGED <<compiled, thread_module, thread_calls, hist_compile_started,
                   hist_compile_finished>>
    /\ UNCHANGED <<trackerVars, moduleVars, eventVars, callbackVars, restVars, last>>

NextCompile ==
  \/ CompileOnceCall
  \/ CallOnceActive
  \/ CompileReturns
  \/ CallOncePassive
  \/ ThreadContinues

SpecCompile == Init /\ [][NextCompile]_vars

\* ------------------------------------------------------------- CHIPEvent
\* An event is constructed in INIT (CHIPEvent::CHIPEvent).  The backend moves
\* it to COMPLETE when it finds the operation the event is bound to finished.

\* void CHIPEvent::recordStream(CHIPQueue *chip_queue): the event takes over
\* the queue's last event and is RECORDING.
recordStream(status) == "RECORDING"

\* bool isFinished()
isFinished(e) == event_status[e] = "COMPLETE"

\* void addAction(ActionFn Action): Actions_.emplace_back(Action)
addAction(actions, a) == Append(actions, a)

doActionsLeaves_All(actions) == actions

\* Actions_.clear(), the last statement of doActions
doActionsLeaves(actions) == << >>

RecordStream ==
  \E e \in Events :
    /\ event_status' = [event_status EXCEPT ![e] = recordStream(@)]
    /\ UNCHANGED <<Actions_, hist_attached, hist_run>>
    /\ UNCHANGED <<trackerVars, moduleVars, compileVars, callbackVars, restVars, last>>

\* The backend finds the operation of a RECORDING event finished.
EventCompletes ==
  \E e \in Events :
    /\ event_status[e] = "RECORDING"
    /\ event_status' = [event_status EXCEPT ![e] = "COMPLETE"]
    /\ UNCHANGED <<Actions_, hist_attached, hist_run>>
    /\ UNCHANGED <<trackerVars, moduleVars, compileVars, callbackVars, restVars, last>>

\* addAction(Action): the n-th action attached to an event is action n.
AddAction ==
  \E e \in Events :
    /\ hist_attached[e] < MaxActions
    /\ hist_attached' = [hist_attached EXCEPT ![e] = @ + 1]
    /\ Actions_' = [Actions_ EXCEPT ![e] = addAction(@, hist_attached[e] + 1)]
    /\ UNCHANGED <<event_status, hist_run>>
    /\ UNCHANGED <<trackerVars, moduleVars, compileVars, callbackVars, restVars, last>>

\* doActions(), called by the event monitor on an event it found finished (so
\* the assert on isFinished() passes in every build): every action of Actions_
\* in order, then Actions_.clear().
DoActions ==
  \E e \in Events :
    /\ isFinished(e)
    /\ hist_run' = [hist_run EXCEPT ![e] = @ \o Actions_[e]]
    /\ Actions_' = [Actions_ EXCEPT ![e] = doActionsLeaves(@)]
    /\ UNCHANGED <<event_status, hist_attached>>
    /\ UNCHANGED <<trackerVars, moduleVars, compileVars, callbackVars, restVars, last>>

NextEvent ==
  \/ RecordStream
  \/ EventCompletes
  \/ AddAction
  \/ DoActions

SpecEvent == Init /\ [][NextEvent]_vars

\* ------------------------------------------- CHIPCallbackData, EventMonitor
\* One in-order queue.  The device completes the operations of queue_ops from
\* the front; a barrier completes only when every event it waits for is
\* COMPLETE.  The event an enqueue call returns completes with its operation.

Op(kind, waits) == [kind |-> kind, waits |-> waits]

\* the events the second barrier of setup() waits for: evs = {cpu_callback_complete}
setupBarrierEvents_None(c) == {}

setupBarrierEvents(c) == {c}

\* CHIPCallbackData::setup() for record c: three fresh member events, then
\* enqueueBarrier(nullptr), enqueueBarrier(&evs), enqueueMarker().  The events
\* the first and the last call return go to locals named gpu_ready and
\* gpu_ack; the members of those names stay as created.
setupRecord(at) ==
  [status |-> "pending", gpu_ready |-> "INIT", cpu_callback_complete |-> "INIT",
   gpu_ack |-> "INIT", executed |-> 0, point |-> at]

setupOps(c) ==
  << Op("barrier", {}), Op("barrier", setupBarrierEvents(c)), Op("marker", {}) >>

\* CHIPEvent::wait() on an event the device will never complete because it
\* was never enqueued: the body is not part of the sources; it returns at
\* once or it never returns.
wait(status) ==
  IF status = "COMPLETE" THEN {"returns"} ELSE
  IF status = "INIT" THEN {"returns", "blocks"} ELSE {"blocks"}

RunningMonitors ==
  { m \in DOMAIN monitors : monitors[m].pc \notin {"retired"} }

RemoveAt(seq, i) == SubSeq(seq, 1, i - 1) \o SubSeq(seq, i + 1, Len(seq))

\* the rest of the program does not move while the callback machinery runs
CallbackFrame == UNCHANGED <<trackerVars, moduleVars, compileVars, eventVars, restVars, last>>

\* an operation other than a callback is submitted to the queue
SubmitWork ==
  /\ Cardinality({ i \in DOMAIN queue_ops : queue_ops[i].kind = "work" }) < MaxWork
  /\ queue_ops' = Append(queue_ops, Op("work", {}))
  /\ UNCHANGED <<dev_done, callbacks, callback_stack, event_monitor, monitors, host_pc>>
  /\ CallbackFrame

\* the device completes the next operation of the queue
DeviceStep ==
  /\ dev_done < Len(queue_ops)
  /\ \A c \in queue_ops[dev_done + 1].waits :
        callbacks[c].cpu_callback_complete = "COMPLETE"
  /\ dev_done' = dev_done + 1
  /\ UNCHANGED <<queue_ops, callbacks, callback_stack, event_monitor, monitors, host_pc>>
  /\ CallbackFrame

\* CHIPQueue::addCallback up to the test of event_monitor: createCallbackData
\* (the constructor runs setup()), callback_stack.push(cb), if (!event_monitor).
\* No lock is held.
AddCallbackPush(t) ==
  /\ host_pc[t] = "idle"
  /\ Len(callbacks) < MaxCallbacks
  /\ LET c == Len(callbacks) + 1 IN
       /\ callbacks' = Append(callbacks, setupRecord(Len(queue_ops) + 1))
       /\ queue_ops' = queue_ops \o setupOps(c)
       /\ callback_stack' = Append(callback_stack, c)
  /\ host_pc' = [host_pc EXCEPT ![t] = IF event_monitor = NULL THEN "create" ELSE "idle"]
  /\ UNCHANGED <<dev_done, event_monitor, monitors>>
  /\ CallbackFrame

\* event_monitor = Backend->createEventMonitor(); return true;
AddCallbackCreateMonitor(t) ==
  /\ host_pc[t] = "create"
  /\ monitors' = Append(monitors, [pc |-> "getCallback", cb |-> 0])
  /\ event_monitor' = Len(monitors) + 1
  /\ host_pc' = [host_pc EXCEPT ![t] = "idle"]
  /\ UNCHANGED <<queue_ops, dev_done, callbacks, callback_stack>>
  /\ CallbackFrame

\* while (Backend->getCallback(&cb)): a pending record is taken off
\* callback_stack; with none left the loop ends and the monitor retires with
\* delete this.  The queue's event_monitor is left as it is.
MonitorGetCallback(m) ==
  /\ monitors[m].pc = "getCallback"
  /\ \/ /\ callback_stack = << >>
        /\ monitors' = [monitors EXCEPT ![m].pc = "retired"]
        /\ UNCHANGED <<callbacks, callback_stack>>
     \/ \E i \in DOMAIN callback_stack :
          /\ monitors' = [monitors EXCEPT ![m] = [pc |-> "wait_ready", cb |-> callback_stack[i]]]
          /\ callbacks' = [callbacks EXCEPT ![callback_stack[i]].status = "taken"]
          /\ callback_stack' = RemoveAt(callback_stack, i)
  /\ UNCHANGED <<queue_ops, dev_done, event_monitor, host_pc>>
  /\ CallbackFrame

\* cb->gpu_ready->wait();
MonitorWaitReady(m) ==
  /\ monitors[m].pc = "wait_ready"
  /\ \E r \in wait(callbacks[monitors[m].cb].gpu_ready) :
       monitors' = [monitors EXCEPT ![m].pc = IF r = "returns" THEN "execute" ELSE "blocked"]
  /\ UNCHANGED <<queue_ops, dev_done, callbacks, callback_stack, event_monitor, host_pc>>
  /\ CallbackFrame

\* cb->execute(hipSuccess);
MonitorExecute(m) ==
  /\ monitors[m].pc = "execute"
  /\ callbacks' = [callbacks EXCEPT ![monitors[m].cb].executed = @ + 1]
  /\ monitors' = [monitors EXCEPT ![m].pc = "hostSignal"]
  /\ UNCHANGED <<queue_ops, dev_done, callback_stack, event_monitor, host_pc>>
  /\ CallbackFrame

\* cb->cpu_callback_complete->hostSignal();
MonitorHostSignal(m) ==
  /\ monitors[m].pc = "hostSignal"
  /\ callbacks' = [callbacks EXCEPT ![monitors[m].cb].cpu_callback_complete = "COMPLETE"]
  /\ monitors' = [monitors EXCEPT ![m].pc = "wait_ack"]
  /\ UNCHANGED <<queue_ops, dev_done, callback_stack, event_monitor, host_pc>>
  /\ CallbackFrame

\* cb->gpu_ack->wait();
MonitorWaitAck(m) ==
  /\ monitors[m].pc = "wait_ack"
  /\ \E r \in wait(callbacks[monitors[m].cb].gpu_ack) :
       monitors' = [monitors EXCEPT ![m].pc = IF r = "returns" THEN "delete" ELSE "blocked"]
  /\ UNCHANGED <<queue_ops, dev_done, callbacks, callback_stack, event_monitor, host_pc>>
  /\ CallbackFrame

\* delete cb;
MonitorDelete(m) ==
  /\ monitors[m].pc = "delete"
  /\ callbacks' = [callbacks EXCEPT ![monitors[m].cb].status = "reclaimed"]
  /\ monitors' = [monitors EXCEPT ![m] = [pc |-> "getCallback", cb |-> 0]]
  /\ UNCHANGED <<queue_ops, dev_done, callback_stack, event_monitor, host_pc>>
  /\ CallbackFrame

MonitorStep(m) ==
  \/ MonitorGetCallback(m)
  \/ MonitorWaitReady(m)
  \/ MonitorExecute(m)
  \/ MonitorHostSignal(m)
  \/ MonitorWaitAck(m)
  \/ MonitorDelete(m)

NextCallback ==
  \/ SubmitWork
  \/ DeviceStep
  \/ \E t \in HostThreads : AddCallbackPush(t)
  \/ \E t \in HostThreads : AddCallbackCreateMonitor(t)
  \/ \E m \in DOMAIN monitors : MonitorGetCallback(m)
  \/ \E m \in DOMAIN monitors : MonitorWaitReady(m)
  \/ \E m \in DOMAIN monitors : MonitorExecute(m)
  \/ \E m \in DOMAIN monitors : MonitorHostSignal(m)
  \/ \E m \in DOMAIN monitors : MonitorWaitAck(m)
  \/ \E m \in DOMAIN monitors : MonitorDelete(m)

SpecCallback == Init /\ [][NextCallback]_vars

\* The device and every thread that can take a step eventually takes one.
SpecCallbackFair ==
  /\ SpecCallback
  /\ WF_vars(DeviceStep)
  /\ \A t \in HostThreads : WF_vars(AddCallbackCreateMonitor(t))
  /\ \A m \in 1 .. MaxCallbacks : WF_vars(m \in DOMAIN monitors /\ MonitorStep(m))

\* ------------------------------------------ CHIPBackend active triple, queues
Find(seq, x) == { i \in DOMAIN seq : seq[i] = x }

\* CHIPQueue *CHIPDevice::getActiveQueue() { return chip_queues[0]; }
\* On an empty vector the read is out of bounds: any pointer may come back.
getActiveQueue(queues) ==
  IF queues # << >> THEN { queues[1] } ELSE AllQueues \cup {NULL}

\* the test of setActiveDevice: std::find over chip_devices
setActiveDeviceFinds_Any(chip_dev) == TRUE

setActiveDeviceFinds(chip_dev) == chip_dev \in chip_devices

ActiveFrame ==
  UNCHANGED <<trackerVars, moduleVars, compileVars, eventVars, callbackVars, execVars,
              propsVars, argVars, kernelVars, queueVars, entryVars, threadVars, poolVars, lockVars>>

\* void CHIPBackend::setActiveDevice(CHIPDevice *chip_dev)
SetActiveDevice ==
  \E chip_dev \in chip_devices \cup {ForeignDevice} :
    /\ IF ~setActiveDeviceFinds(chip_dev)
         THEN /\ last' = Call("setActiveDevice", chip_dev, "hipErrorLaunchFailure", NULL, 0)
              /\ UNCHANGED <<active_dev, active_ctx, active_q>>
         ELSE /\ active_dev' = chip_dev
              /\ active_ctx' = getContext(chip_dev)
              /\ active_q' \in getActiveQueue(
                     IF chip_dev \in Devices THEN chip_queues[chip_dev] ELSE << >>)
              /\ last' = Call("setActiveDevice", chip_dev, "ok", NULL, 0)
    /\ UNCHANGED chip_queues
    /\ ActiveFrame

\* void CHIPDevice::addQueue(CHIPQueue *chip_queue_): push_back unless found
AddQueue ==
  \E d \in Devices : \E q \in QueuesOf(d) :
    /\ chip_queues' = [chip_queues EXCEPT ![d] =
                          IF Find(@, q) = {} THEN Append(@, q) ELSE @]
    /\ last' = Call("addQueue", d, "ok", q, 0)
    /\ UNCHANGED <<active_dev, active_ctx, active_q>>
    /\ ActiveFrame

\* bool CHIPDevice::removeQueue(CHIPQueue *q): throws hipErrorUnknown when the
\* queue is not in the list, erases it otherwise.
RemoveQueue ==
  \E d \in Devices : \E q \in QueuesOf(d) :
    /\ IF Find(chip_queues[d], q) = {}
         THEN /\ last' = Call("removeQueue", d, "hipErrorUnknown", q, 0)
              /\ UNCHANGED chip_queues
         ELSE /\ chip_queues' = [chip_queues EXCEPT ![d] =
                                   RemoveAt(@, CHOOSE i \in Find(@, q) : TRUE)]
              /\ last' = Call("removeQueue", d, "ok", q, 0)
    /\ UNCHANGED <<active_dev, active_ctx, active_q>>
    /\ ActiveFrame

NextActive ==
  \/ SetActiveDevice
  \/ AddQueue
  \/ RemoveQueue

SpecActive == Init /\ [][NextActive]_vars

\* ------------------------------------------------ CHIPBackend::chip_execstack
\* One stack for the whole backend.  configureCall and setArg hold the
\* backend mutex for the length of the call, so each is one step.

ExecFrame ==
  UNCHANGED <<trackerVars, moduleVars, compileVars, eventVars, callbackVars,
              activeVars, propsVars, argVars, kernelVars, queueVars, entryVars, threadVars, poolVars, lockVars, last>>

\* CHIPExecItem *ex = new CHIPExecItem(grid, block, shared, q)
ExecItem(t) == [ by |-> t, writers |-> {} ]

\* hipError_t CHIPBackend::configureCall(...): chip_execstack.push(ex)
ConfigureCall(t) ==
  /\ exec_pc[t] = "idle"
  /\ chip_execstack' = Append(chip_execstack, ExecItem(t))
  /\ exec_pc' = [exec_pc EXCEPT ![t] = "configured"]
  /\ exec_args' = [exec_args EXCEPT ![t] = 0]
  /\ ExecFrame

\* hipError_t CHIPBackend::setArg(arg, size, offset):
\* chip_execstack.top()->setArg(arg, size, offset)
SetArg(t) ==
  /\ exec_pc[t] = "configured"
  /\ exec_args[t] < MaxSetArgs
  /\ chip_execstack' = [chip_execstack EXCEPT
                          ![Len(chip_execstack)].writers = @ \cup {t}]
  /\ exec_args' = [exec_args EXCEPT ![t] = @ + 1]
  /\ UNCHANGED exec_pc
  /\ ExecFrame

\* the launch of the configured call: the item on top of the stack is taken
\* off and launched
LaunchTop(t) ==
  /\ exec_pc[t] = "configured"
  /\ chip_execstack' = SubSeq(chip_execstack, 1, Len(chip_execstack) - 1)
  /\ exec_pc' = [exec_pc EXCEPT ![t] = "idle"]
  /\ UNCHANGED exec_args
  /\ ExecFrame

NextExec ==
  \/ \E t \in HostThreads : ConfigureCall(t)
  \/ \E t \in HostThreads : SetArg(t)
  \/ \E t \in HostThreads : LaunchTop(t)

SpecExec == Init /\ [][NextExec]_vars

\* --------------------------------------- CHIPBackend::findDeviceMatchingProps
\* validPropCount: the fields the request sets (non-zero)
validPropCount(properties) ==
  Cardinality({ f \in PropFields : properties[f] # 0 })

\* matchedCount: the requested fields the device meets or exceeds
matchedCount(currentProp, properties) ==
  Cardinality({ f \in PropFields :
                  properties[f] # 0 /\ currentProp[f] >= properties[f] })

\* matchedCount > maxMatchedCount ? dev : matched_device
matchReplaces_Ties(count, maxMatchedCount) == count >= maxMatchedCount

matchReplaces(count, maxMatchedCount) == count > maxMatchedCount

\* The loop over chip_devices from device dev on.  matched_device is declared
\* without an initial value: it is the empty set until the loop assigns it,
\* the set of the device assigned afterwards.
RECURSIVE matchLoop(_, _, _, _, _)
matchLoop(props, properties, dev, matched_device, maxMatchedCount) ==
  IF dev > Len(props) THEN matched_device
  ELSE LET count == matchedCount(props[dev], properties)
       IN IF validPropCount(properties) = count
            THEN matchLoop(props, properties, dev + 1,
                           IF matchReplaces(count, maxMatchedCount)
                             THEN {dev} ELSE matched_device,
                           IF count > maxMatchedCount THEN count ELSE maxMatchedCount)
            ELSE matchLoop(props, properties, dev + 1, matched_device, maxMatchedCount)

\* CHIPDevice *findDeviceMatchingProps(const hipDeviceProp_t *properties): the
\* pointers the call can return.  Returning the variable while it was never
\* assigned reads an indeterminate pointer: null, a device or anything else.
findDeviceMatchingProps(props, properties) ==
  LET matched_device == matchLoop(props, properties, 1, {}, 0)
  IN IF matched_device = {}
       THEN chip_devices \cup { NULL, ForeignDevice }
       ELSE matched_device

InitProps ==
  /\ InitProgram
  /\ native_ptrs = Ptrs
  /\ NDEBUG = FALSE
  /\ device_props \in [Devices -> Props]

FindDeviceMatchingProps ==
  \E properties \in Props :
    \E dev \in findDeviceMatchingProps(device_props, properties) :
      /\ matched' = [called |-> TRUE, properties |-> properties, matched_device |-> dev]
      /\ UNCHANGED device_props
      /\ UNCHANGED <<trackerVars, moduleVars, compileVars, eventVars, callbackVars,
                     activeVars, execVars, argVars, kernelVars, queueVars, entryVars, threadVars, poolVars, lockVars, last>>

NextProps == FindDeviceMatchingProps

SpecProps == InitProps /\ [][NextProps]_vars

\* a device of the backend that meets or exceeds every requested field
Qualifies(d, properties) ==
  matchedCount(device_props[d], properties) = validPropCount(properties)

\* ----------------------------------------------------- CHIPExecItem::setArg
\* std::vector<uint8_t> arg_data as its size and a map from the offsets that
\* were written to their bytes; every other byte below size is the zero that
\* resize() filled in.  Byte k of argument v is <<v, k>>.
ArgOffsets == (0 .. MaxOffset) \cup { ArgSlack + o : o \in 0 .. MaxOffset }
ArgNames == { 1, 2 }
ZeroByte == << 0, 0 >>

ByteAt(data, i) == IF i \in DOMAIN data.bytes THEN data.bytes[i] ELSE ZeroByte

\* what vector::resize(n) keeps: the elements below n
resizeKeeps_Nothing(bytes, n) == << >>

resizeKeeps(bytes, n) == [ i \in { j \in DOMAIN bytes : j < n } |-> bytes[i] ]

\* if ((offset + size) > arg_data.size()) arg_data.resize(offset + size + 1024);
resize(data, offset, size) ==
  IF offset + size > data.size
    THEN [ size |-> offset + size + ArgSlack,
           bytes |-> resizeKeeps(data.bytes, offset + size + ArgSlack) ]
    ELSE data

\* std::memcpy(arg_data.data() + offset, arg, size), arg being argument v
memcpy(data, offset, v, size) ==
  [ data EXCEPT !.bytes =
      [ i \in DOMAIN data.bytes \cup (offset .. (offset + size - 1)) |->
          IF i >= offset /\ i < offset + size THEN << v, i - offset >>
          ELSE data.bytes[i] ] ]

\* void CHIPExecItem::setArg(const void *arg, size_t size, size_t offset)
setArg(data, v, size, offset) == memcpy(resize(data, offset, size), offset, v, size)

ExecItemSetArg ==
  \E v \in ArgNames : \E size \in 1 .. MaxArgSize : \E offset \in ArgOffsets :
    /\ Len(offset_sizes) < MaxSetArgs
    /\ arg_data' = setArg(arg_data, v, size, offset)
    /\ offset_sizes' = Append(offset_sizes, << offset, size >>)
    /\ hist_args' = hist_args \cup { [ offset |-> offset, size |-> size, v |-> v ] }
    /\ UNCHANGED <<trackerVars, moduleVars, compileVars, eventVars, callbackVars,
                   activeVars, execVars, propsVars, kernelVars, queueVars, entryVars, threadVars, poolVars, lockVars, last>>

NextArgs == ExecItemSetArg

SpecArgs == Init /\ [][NextArgs]_vars

\* two arguments whose byte ranges share a byte
Overlap(a, b) ==
  /\ a # b
  /\ a.offset < b.offset + b.size
  /\ b.offset < a.offset + a.size

\* ------------------------------------ kernels by host pointer, launchByHostPtr
\* Kernel k of the device is element k of chip_kernels and has name k.

KernelFrame ==
  UNCHANGED <<trackerVars, moduleVars, compileVars, eventVars, callbackVars,
              activeVars, execVars, propsVars, argVars, queueVars, entryVars, threadVars, poolVars, lockVars>>

\* CHIPKernel::CHIPKernel(host_f_name_, func_info_) sets host_f_name and
\* func_info only: host_f_ptr of a new kernel is whatever the memory held.
NewKernelHostPtr == HostPtrs \cup {NULL}

\* CHIPModule::addKernel, called while a module is compiled
AddKernel ==
  \E p \in NewKernelHostPtr :
    /\ Len(chip_kernels) < MaxKernels
    /\ chip_kernels' = Append(chip_kernels, p)
    /\ last' = Call("addKernel", Len(chip_kernels) + 1, "ok", NULL, 0)
    /\ UNCHANGED <<hist_registered, LastEvent, hist_launches>>
    /\ KernelFrame

\* void CHIPDevice::registerFunctionAsKernel(module_str, host_f_ptr,
\* host_f_name): the kernel of that name gets the host pointer, or the call
\* throws hipErrorLaunchFailure when the module has no kernel of that name.
RegisterFunctionAsKernel ==
  \E host_f_ptr \in HostPtrs : \E host_f_name \in 1 .. MaxKernels :
    /\ IF host_f_name \in DOMAIN chip_kernels
         THEN /\ chip_kernels' = [chip_kernels EXCEPT ![host_f_name] = host_f_ptr]
              /\ hist_registered' = hist_registered \cup { << host_f_ptr, host_f_name >> }
              /\ last' = Call("registerFunctionAsKernel", host_f_ptr, "ok", host_f_name, 0)
         ELSE /\ UNCHANGED <<chip_kernels, hist_registered>>
              /\ last' = Call("registerFunctionAsKernel", host_f_ptr,
                              "hipErrorLaunchFailure", host_f_name, 0)
    /\ UNCHANGED <<LastEvent, hist_launches>>
    /\ KernelFrame

\* CHIPKernel *CHIPDevice::findKernelByHostPtr(const void *hostPtr): the
\* first kernel whose host pointer is hostPtr, NULL standing for the throw of
\* hipErrorLaunchFailure (no kernels at all, or none found).
findKernelByHostPtr(kernels, hostPtr) ==
  IF Find(kernels, hostPtr) = {} THEN NULL
  ELSE CHOOSE k \in Find(kernels, hostPtr) : \A j \in Find(kernels, hostPtr) : k <= j

\* CHIPEvent *CHIPExecItem::launchByHostPtr(const void *hostPtr) on an item
\* with a queue: findKernelByHostPtr, then launchByDevicePtr, which launches
\* on the queue; CHIPQueue::launch updates the queue's last event.
LaunchByHostPtr ==
  \E hostPtr \in HostPtrs \cup {NULL} :
    LET K == findKernelByHostPtr(chip_kernels, hostPtr)
    IN /\ hist_launches < MaxLaunches
       /\ IF K = NULL
            THEN /\ last' = Call("launchByHostPtr", hostPtr, "hipErrorLaunchFailure", NULL, 0)
                 /\ UNCHANGED <<LastEvent, hist_launches>>
            ELSE /\ hist_launches' = hist_launches + 1
                 /\ LastEvent' = hist_launches + 1
                 /\ last' = Call("launchByHostPtr", hostPtr, "ok", K, 0)
       /\ UNCHANGED <<chip_kernels, hist_registered>>
       /\ KernelFrame

NextKernel ==
  \/ AddKernel
  \/ RegisterFunctionAsKernel
  \/ LaunchByHostPtr

SpecKernel == Init /\ [][NextKernel]_vars

\* ------------------------------------ CHIPQueue: the enqueue operations
\* One queue, used by HostThreads.  cmd_list[i] is the asynchronous
\* implementation that submitted operation i; the event it returned is i.

QueueFrame ==
  UNCHANGED <<trackerVars, moduleVars, compileVars, eventVars, callbackVars,
              activeVars, execVars, propsVars, argVars, entryVars,
              threadVars,
              poolVars,
              lockVars,
              chip_kernels, hist_registered, hist_launches>>

SyncOps == {"memCopy", "memFill", "memCopy2D", "memCopy3D"}
AsyncOps == {"memCopyAsync", "memFillAsync", "memCopy2DAsync"}

\* The asynchronous implementation each enqueue operation submits with.
AsyncImpl(op) ==
  CASE op \in {"memCopy", "memCopyAsync"} -> "memCopyAsyncImpl"
    [] op \in {"memFill", "memFillAsync"} -> "memFillAsyncImpl"
    [] op \in {"memCopy2D", "memCopy2DAsync"} -> "memCopy2DAsyncImpl"
    [] op \in {"memCopy3D", "memCopy3DAsync"} -> "memCopy3DAsyncImpl"
    [] op = "launch" -> "launchImpl"

\* The synchronous variant that submits with an implementation.
SyncOp(impl) == CHOOSE op \in SyncOps : AsyncImpl(op) = impl

finishReturns_AtOnce(list, done) == TRUE

\* CHIPQueue::finish() blocks the caller until the queue has nothing left to
\* do: it returns once every submitted operation has completed.
finishReturns(list, done) == done = Len(list)

\* memCopy, memFill, memCopy2D, memCopy3D up to their finish(): take mtx and
\* submit with the asynchronous implementation.
SyncSubmit(t) ==
  \E op \in SyncOps :
    /\ call_pc[t] = "idle"
    /\ mtx = NULL
    /\ Len(cmd_list) < MaxSubmits
    /\ mtx' = t
    /\ cmd_list' = Append(cmd_list, AsyncImpl(op))
    /\ call_ev' = [call_ev EXCEPT ![t] = Len(cmd_list) + 1]
    /\ call_pc' = [call_pc EXCEPT ![t] = "finish"]
    /\ UNCHANGED <<cmd_done, LastEvent, last>>
    /\ QueueFrame

\* ... and from the return of finish(): updateLastEvent(ev), release mtx.
SyncReturn(t) ==
  /\ call_pc[t] = "finish"
  /\ finishReturns(cmd_list, cmd_done)
  /\ LastEvent' = call_ev[t]
  /\ mtx' = NULL
  /\ call_pc' = [call_pc EXCEPT ![t] = "idle"]
  /\ call_ev' = [call_ev EXCEPT ![t] = NULL]
  /\ last' = Call(SyncOp(cmd_list[call_ev[t]]), call_ev[t], "hipSuccess", NULL, cmd_done)
  /\ UNCHANGED <<cmd_list, cmd_done>>
  /\ QueueFrame

\* memCopyAsync, memFillAsync, memCopy2DAsync: under mtx,
\* submit and updateLastEvent(ev); nothing is waited for.
AsyncSubmit(t) ==
  \E op \in AsyncOps :
    /\ call_pc[t] = "idle"
    /\ mtx = NULL
    /\ Len(cmd_list) < MaxSubmits
    /\ cmd_list' = Append(cmd_list, AsyncImpl(op))
    /\ LastEvent' = Len(cmd_list) + 1
    /\ last' = Call(op, Len(cmd_list) + 1, "hipSuccess", NULL, cmd_done)
    /\ UNCHANGED <<cmd_done, mtx, call_pc, call_ev>>
    /\ QueueFrame

\* The enqueue operations that submit before they take mtx: launch, whose
\* lock_guard is commented out, and memCopy3DAsync, which takes mtx only after
\* memCopy3DAsyncImpl has returned.
UnlockedOps == {"launch", "memCopy3DAsync"}

UnlockedOp(impl) == CHOOSE op \in UnlockedOps : AsyncImpl(op) = impl

\* launch and memCopy3DAsync up to the return of the implementation: the
\* operation is submitted, also while another thread is inside a
\* synchronous variant.
QueueLaunch(t) ==
  \E op \in UnlockedOps :
    /\ call_pc[t] = "idle"
    /\ Len(cmd_list) < MaxSubmits
    /\ cmd_list' = Append(cmd_list, AsyncImpl(op))
    /\ call_ev' = [call_ev EXCEPT ![t] = Len(cmd_list) + 1]
    /\ call_pc' = [call_pc EXCEPT ![t] = "updateLastEvent"]
    /\ UNCHANGED <<cmd_done, mtx, LastEvent, last>>
    /\ QueueFrame

\* ... and updateLastEvent(ev) with the return; memCopy3DAsync makes it
\* under mtx.
QueueLaunchUpdate(t) ==
  /\ call_pc[t] = "updateLastEvent"
  /\ UnlockedOp(cmd_list[call_ev[t]]) = "memCopy3DAsync" => lockAdmits(mtx)
  /\ LastEvent' = call_ev[t]
  /\ call_pc' = [call_pc EXCEPT ![t] = "idle"]
  /\ call_ev' = [call_ev EXCEPT ![t] = NULL]
  /\ last' = Call(UnlockedOp(cmd_list[call_ev[t]]), call_ev[t], "ev", NULL, cmd_done)
  /\ UNCHANGED <<cmd_list, cmd_done, mtx>>
  /\ QueueFrame

\* The device completes the oldest operation that has not completed.
QueueDeviceStep ==
  /\ cmd_done < Len(cmd_list)
  /\ cmd_done' = cmd_done + 1
  /\ UNCHANGED <<cmd_list, mtx, call_pc, call_ev, LastEvent, last>>
  /\ QueueFrame

NextQueue ==
  \/ \E t \in HostThreads : SyncSubmit(t)
  \/ \E t \in HostThreads : SyncReturn(t)
  \/ \E t \in HostThreads : AsyncSubmit(t)
  \/ \E t \in HostThreads : QueueLaunch(t)
  \/ \E t \in HostThreads : QueueLaunchUpdate(t)
  \/ QueueDeviceStep

SpecQueue == Init /\ [][NextQueue]_vars

\* ------------------------------------ CHIPContextLevel0: the event pools
PoolFrame ==
  UNCHANGED <<trackerVars, moduleVars, compileVars, eventVars, callbackVars,
              activeVars, execVars, propsVars, argVars, kernelVars, queueVars,
              entryVars, threadVars, lockVars>>

\* How many events the pools hold together, free or handed out.
RECURSIVE Capacity(_)
Capacity(pools) ==
  IF pools = << >> THEN 0
  ELSE pools[Len(pools)].Size_ + Capacity(SubSeq(pools, 1, Len(pools) - 1))

\* new LZEventPool(Ctx, Size): a pool whose stack holds Size new events
LZEventPool(pools, Size) ==
  [ Size_ |-> Size, Events_ |-> [i \in 1 .. Size |-> Capacity(pools) + i] ]

EventAvailable_Never(pool) == FALSE

\* bool EventAvailable() { return Events_.size() > 0; }
EventAvailable(pool) == Len(pool.Events_) > 0

getEvent_Leaves(pool) ==
  [ Event |-> pool.Events_[Len(pool.Events_)], pool |-> pool ]

\* LZEventPool::getEvent(): takes the event on top of the stack
getEvent(pool) ==
  [ Event |-> pool.Events_[Len(pool.Events_)],
    pool |-> [pool EXCEPT !.Events_ = SubSeq(@, 1, Len(@) - 1)] ]

\* LZEventPool::returnEvent(Event): puts the event back on the stack
returnEvent(pool, Event) == [pool EXCEPT !.Events_ = Append(@, Event)]

\* The pool an event was created in.
PoolOf(pools, Event) ==
  CHOOSE k \in 1 .. Len(pools) :
    Capacity(SubSeq(pools, 1, k - 1)) < Event /\ Event <= Capacity(SubSeq(pools, 1, k))

\* The context's pool fields as one record.
PoolState ==
  [ EventPools_ |-> EventPools_, EventPoolSize_ |-> EventPoolSize_,
    EventsRequested_ |-> EventsRequested_, EventsReused_ |-> EventsReused_ ]

SetPoolState(c) ==
  /\ EventPools_' = c.EventPools_
  /\ EventPoolSize_' = c.EventPoolSize_
  /\ EventsRequested_' = c.EventsRequested_
  /\ EventsReused_' = c.EventsReused_

\* getEventFromPool, the loop from pool k on: the first pool with an
\* available event answers.
RECURSIVE scanPools(_, _)
scanPools(c, k) ==
  IF k > Len(c.EventPools_) THEN [ found |-> FALSE, st |-> c, Event |-> NULL ]
  ELSE IF EventAvailable(c.EventPools_[k])
       THEN LET g == getEvent(c.EventPools_[k])
            IN [ found |-> TRUE,
                 st |-> [c EXCEPT !.EventPools_[k] = g.pool, !.EventsReused_ = @ + 1],
                 Event |-> g.Event ]
       ELSE scanPools(c, k + 1)

\* getEventFromPool, after the loop: a new pool of EventPoolSize_ events,
\* EventPoolSize_ doubled, an event of the new pool, the pool appended.
createPool(c) ==
  LET g == getEvent(LZEventPool(c.EventPools_, c.EventPoolSize_))
  IN [ st |-> [c EXCEPT !.EventPools_ = Append(@, g.pool),
                        !.EventPoolSize_ = @ * 2],
       Event |-> g.Event ]

\* std::shared_ptr<CHIPEventLevel0> getEventFromPool()
getEventFromPool(c) ==
  LET c1 == [c EXCEPT !.EventsRequested_ = @ + 1]
      r == scanPools(c1, 1)
  IN IF r.found THEN [ st |-> r.st, Event |-> r.Event, ret |-> "reused" ]
     ELSE [ st |-> createPool(c1).st, Event |-> createPool(c1).Event, ret |-> "created" ]

\* Whether the call may be made within the bounds of the model.
PoolCallAdmitted ==
  /\ EventsRequested_ < MaxRequests
  /\ (\A k \in 1 .. Len(EventPools_) : ~EventAvailable(EventPools_[k])) =>
       Len(EventPools_) < MaxPools

\* One caller at a time: the whole of getEventFromPool
GetEventFromPool ==
  /\ PoolCallAdmitted
  /\ LET r == getEventFromPool(PoolState)
     IN /\ SetPoolState(r.st)
        /\ hist_holders' = [hist_holders EXCEPT ![r.Event] = @ + 1]
        /\ last' = Call("getEventFromPool", 0, r.ret, r.Event, 0)
  /\ UNCHANGED <<ContextMtx, pool_pc, pool_idx>>
  /\ PoolFrame

\* A holder gives its event back to the pool the event belongs to.
ReturnEvent ==
  \E e \in PoolEventIds :
    /\ hist_holders[e] > 0
    /\ EventPools_' = [EventPools_ EXCEPT ![PoolOf(EventPools_, e)] = returnEvent(@, e)]
    /\ hist_holders' = [hist_holders EXCEPT ![e] = @ - 1]
    /\ last' = Call("returnEvent", 0, "void", e, 0)
    /\ UNCHANGED <<EventPoolSize_, EventsRequested_, EventsReused_, ContextMtx,
                   pool_pc, pool_idx>>
    /\ PoolFrame

NextPool ==
  \/ GetEventFromPool
  \/ ReturnEvent

SpecPool == Init /\ [][NextPool]_vars

\* Several threads: getEventFromPool statement by statement.
\* LOCK(ContextMtx); EventsRequested_++
PoolGetBegin(t) ==
  /\ pool_pc[t] = "idle"
  /\ PoolCallAdmitted
  /\ lockAdmits(ContextMtx)
  /\ ContextMtx' = t
  /\ EventsRequested_' = EventsRequested_ + 1
  /\ pool_pc' = [pool_pc EXCEPT ![t] = "scan"]
  /\ pool_idx' = [pool_idx EXCEPT ![t] = 1]
  /\ UNCHANGED <<EventPools_, EventPoolSize_, EventsReused_, hist_holders, last>>
  /\ PoolFrame

\* One turn of the loop, under the pool's EventPoolMtx: return the pool's
\* event if it has one, else go on to the next pool.
PoolGetScan(t) ==
  /\ pool_pc[t] = "scan"
  /\ pool_idx[t] <= Len(EventPools_)
  /\ LET pool == EventPools_[pool_idx[t]]
     IN IF EventAvailable(pool)
        THEN /\ EventPools_' = [EventPools_ EXCEPT ![pool_idx[t]] = getEvent(pool).pool]
             /\ EventsReused_' = EventsReused_ + 1
             /\ hist_holders' = [hist_holders EXCEPT ![getEvent(pool).Event] = @ + 1]
             /\ ContextMtx' = NULL
             /\ pool_pc' = [pool_pc EXCEPT ![t] = "idle"]
             /\ pool_idx' = [pool_idx EXCEPT ![t] = 0]
             /\ last' = Call("getEventFromPool", t, "reused", getEvent(pool).Event, 0)
        ELSE /\ pool_idx' = [pool_idx EXCEPT ![t] = @ + 1]
             /\ UNCHANGED <<EventPools_, EventsReused_, hist_holders, ContextMtx,
                            pool_pc, last>>
  /\ UNCHANGED <<EventPoolSize_, EventsRequested_>>
  /\ PoolFrame

\* After the loop: the new pool and its event.
PoolGetCreate(t) ==
  /\ pool_pc[t] = "scan"
  /\ pool_idx[t] > Len(EventPools_)
  /\ Len(EventPools_) < MaxPools
  /\ LET r == createPool(PoolState)
     IN /\ SetPoolState(r.st)
        /\ hist_holders' = [hist_holders EXCEPT ![r.Event] = @ + 1]
        /\ last' = Call("getEventFromPool", t, "created", r.Event, 0)
  /\ ContextMtx' = NULL
  /\ pool_pc' = [pool_pc EXCEPT ![t] = "idle"]
  /\ pool_idx' = [pool_idx EXCEPT ![t] = 0]
  /\ PoolFrame

NextPoolThreads ==
  \/ \E t \in HostThreads : PoolGetBegin(t)
  \/ \E t \in HostThreads : PoolGetScan(t)
  \/ \E t \in HostThreads : PoolGetCreate(t)
  \/ ReturnEvent

SpecPoolThreads == Init /\ [][NextPoolThreads]_vars

\* --------------------------------------- the mutexes the calls take, in order
\* A call is the sequence of its lock, unlock, submit and finish steps.
LockFrame ==
  UNCHANGED <<trackerVars, moduleVars, compileVars, eventVars, callbackVars,
              activeVars, execVars, propsVars, argVars, kernelVars, queueVars,
              entryVars, threadVars, poolVars, trace, hist_alloc_ok>>

lock(m) == << <<"lock", m>> >>
unlock(m) == << <<"unlock", m>> >>
submit == << <<"submit", "queue">> >>
finish == << <<"finish", "queue">> >>

\* getEventFromPool: LOCK(ContextMtx), and EventPoolMtx for a pool inside it
getEventFromPoolProgram ==
  lock("ContextMtx") \o lock("EventPoolMtx") \o unlock("EventPoolMtx") \o unlock("ContextMtx")

\* reserveMem and releaseMemReservation: the tracker's mutex for the call
reserveMemProgram == lock("tracker") \o unlock("tracker")

\* Context::allocate: the context's mutex around reserveMem and allocate_
allocateProgram == lock("context") \o reserveMemProgram \o unlock("context")

freeProgram_LocksContext ==
  lock("tracker") \o lock("context") \o unlock("context") \o unlock("tracker")

\* Context::free: no mutex of its own; releaseMemReservation takes the tracker's
freeProgram == reserveMemProgram

\* launch: no mutex; the implementation takes an event and submits
launchProgram == getEventFromPoolProgram \o submit

\* memCopyAsync, enqueueBarrier, enqueueMarker, ...: the queue's mutex around
\* the implementation
enqueueProgram == lock("queue") \o launchProgram \o unlock("queue")

\* memCopy, memFill, ...: the same with finish() before the mutex is released
memCopyProgram == lock("queue") \o launchProgram \o finish \o unlock("queue")

\* addCallback: CHIPCallbackData::setup enqueues two barriers and a marker
addCallbackProgram == enqueueProgram \o enqueueProgram \o enqueueProgram

\* initializeDeviceVariables on a device whose module has a variable: under
\* the device's mutex the info buffer, the info kernel, the copy, finish, the
\* variable's storage, the bind kernel, finish, the init kernel, finish.
initializeDeviceVariablesProgram ==
  lock("device") \o allocateProgram \o launchProgram \o enqueueProgram \o finish
    \o allocateProgram \o launchProgram \o finish \o launchProgram \o finish
    \o unlock("device")

\* deallocateDeviceVariables: under the device's mutex a free per variable
deallocateDeviceVariablesProgram == lock("device") \o freeProgram \o unlock("device")

LockOps ==
  { "allocate", "free", "memCopyAsync", "memCopy", "launch", "addCallback",
    "initializeDeviceVariables", "deallocateDeviceVariables" }

Program(op) ==
  CASE op = "allocate" -> allocateProgram
    [] op = "free" -> freeProgram
    [] op = "memCopyAsync" -> enqueueProgram
    [] op = "memCopy" -> memCopyProgram
    [] op = "launch" -> launchProgram
    [] op = "addCallback" -> addCallbackProgram
    [] op = "initializeDeviceVariables" -> initializeDeviceVariablesProgram
    [] op = "deallocateDeviceVariables" -> deallocateDeviceVariablesProgram

\* The step a thread inside a call is at.
StepOf(t) == Program(lock_op[t])[lock_pc[t]]

\* A host thread enters a call.
LockCall(t) ==
  \E op \in LockOps :
    /\ lock_pc[t] = 0
    /\ lock_calls < MaxLockCalls
    /\ lock_calls' = lock_calls + 1
    /\ lock_op' = [lock_op EXCEPT ![t] = op]
    /\ lock_pc' = [lock_pc EXCEPT ![t] = 1]
    /\ UNCHANGED <<held, pending, last>>
    /\ LockFrame

\* The steps of a call that cannot block: releasing a mutex and submitting.
Blocks(step) == step[1] \in {"lock", "finish"}

\* Runs the steps of prog from pc that cannot block, up to the next one that
\* can or to the end of the call: the mutexes held, the device's work and
\* the position afterwards.
RECURSIVE runOn(_, _, _, _)
runOn(prog, pc, h, p) ==
  IF pc > Len(prog) THEN [held |-> h, pending |-> p, pc |-> 0]
  ELSE IF Blocks(prog[pc]) THEN [held |-> h, pending |-> p, pc |-> pc]
  ELSE IF prog[pc][1] = "unlock"
    THEN runOn(prog, pc + 1, [h EXCEPT ![prog[pc][2]] = NULL], p)
    ELSE runOn(prog, pc + 1, h, 1)

\* A thread takes the step it waits at, once a mutex it waits for is free or
\* the device has completed the work finish() waits for, and runs on to the
\* next step that can block; after the last step the call returns.
LockStep(t) ==
  /\ lock_pc[t] > 0
  /\ LET step == StepOf(t)
         prog == Program(lock_op[t])
         taken == IF step[1] = "lock" THEN [held EXCEPT ![step[2]] = t] ELSE held
         o == runOn(prog, lock_pc[t] + 1, taken, pending)
     IN /\ IF step[1] = "lock" THEN lockAdmits(held[step[2]]) ELSE pending = 0
        /\ held' = o.held
        /\ pending' = o.pending
        /\ lock_pc' = [lock_pc EXCEPT ![t] = o.pc]
        /\ lock_op' = [lock_op EXCEPT ![t] = IF o.pc = 0 THEN "none" ELSE @]
  /\ UNCHANGED <<lock_calls, last>>
  /\ LockFrame

\* The device completes the work submitted to it.
LockDeviceStep ==
  /\ pending = 1
  /\ pending' = 0
  /\ UNCHANGED <<held, lock_op, lock_pc, lock_calls, last>>
  /\ LockFrame

NextLocks ==
  \/ \E t \in HostThreads : LockCall(t)
  \/ \E t \in HostThreads : LockStep(t)
  \/ LockDeviceStep

SpecLocks == Init /\ [][NextLocks]_vars

\* A thread that can take a step takes one, and the device completes what
\* was submitted to it.
SpecLocksFair ==
  /\ SpecLocks
  /\ \A t \in HostThreads : WF_vars(LockStep(t))
  /\ WF_vars(LockDeviceStep)

\* ================================================================== claims

\* C1: for every sequence of reserveMem / releaseMemReservation calls on one
\* tracker, total_mem_used is never greater than global_mem_size and never
\* below zero.
C1_UsedWithinCapacity ==
  /\ total_mem_used >= 0
  /\ total_mem_used <= global_mem_size

\* C1 witness: the tracker is full and has just refused a reservation.
C1_Witness ==
  /\ last.op = "reserveMem"
  /\ last.ret = "hipErrorMemoryAllocation"
  /\ total_mem_used = global_mem_size

\* C2: reserveMem(bytes) succeeds iff used + bytes <= capacity; on success used
\* grows by exactly bytes and the high-water mark becomes the larger of the old
\* mark and the new used; on failure it raises the out-of-memory error and
\* used and the high-water mark are unchanged.
C2_ReserveContract ==
  [][ last'.op = "reserveMem" =>
        IF total_mem_used + last'.arg <= global_mem_size
        THEN /\ last'.ret = "true"
             /\ total_mem_used' = total_mem_used + last'.arg
             /\ max_mem_used' = IF total_mem_used' > max_mem_used
                                THEN total_mem_used' ELSE max_mem_used
        ELSE /\ last'.ret = "hipErrorMemoryAllocation"
             /\ total_mem_used' = total_mem_used
             /\ max_mem_used' = max_mem_used ]_vars

\* C2 witness: a reservation refused while part of the memory is in use and the
\* high-water mark is above the current use.
C2_Witness ==
  /\ last.op = "reserveMem"
  /\ last.ret = "hipErrorMemoryAllocation"
  /\ total_mem_used > 0
  /\ max_mem_used > total_mem_used

\* C3 as stated: releaseMemReservation(bytes) returns true and decrements used
\* when bytes <= used, and when bytes > used returns false and leaves used at
\* zero (clamped).
C3_ReleaseClampsAtZero ==
  [][ last'.op = "releaseMemReservation" =>
        IF last'.arg <= total_mem_used
        THEN /\ last'.ret = "true"
             /\ total_mem_used' = total_mem_used - last'.arg
        ELSE /\ last'.ret = "false"
             /\ total_mem_used' = 0 ]_vars

\* C3 amended: releaseMemReservation(bytes) returns true and decrements used by
\* bytes when bytes <= used; when bytes > used it returns false and leaves used
\* as it was.
C3_ReleaseContract ==
  [][ last'.op = "releaseMemReservation" =>
        IF last'.arg <= total_mem_used
        THEN /\ last'.ret = "true"
             /\ total_mem_used' = total_mem_used - last'.arg
        ELSE /\ last'.ret = "false"
             /\ total_mem_used' = total_mem_used ]_vars

\* C3 witness: a release of more than is reserved was refused and the
\* reservation that was outstanding is still there.
C3_Witness ==
  /\ last.op = "releaseMemReservation"
  /\ last.ret = "false"
  /\ total_mem_used > 0

\* C4: when Context::allocate has reserved n bytes and the native allocation
\* then fails, used on return equals its value before the call.
C4_AllocateRollsBack ==
  [][ (last'.op = "allocate" /\ last'.ret = "returned" /\ last'.ptr = NULL) =>
        total_mem_used' = total_mem_used ]_vars

\* C4 witness: an allocation of n > 0 bytes whose native allocation failed,
\* with other reservations outstanding.
C4_Witness ==
  /\ last.op = "allocate"
  /\ last.ret = "returned"
  /\ last.ptr = NULL
  /\ last.size > 0
  /\ total_mem_used > 0

\* Pointers that Context::allocate returned and Context::free has released
\* since: recorded by the tracker, no longer held by the native allocator.
FreedPtrs ==
  {p \in native_ptrs : p \in DOMAIN dev_to_allocation_info /\ p \notin native_live}

\* C5: a second free of the same pointer, with no re-allocation in between, is
\* rejected as an error and does not decrement used again.
C5_SecondFreeRejected ==
  [][ (last'.op = "free" /\ last'.arg \in FreedPtrs) =>
        /\ last'.ret # "hipSuccess"
        /\ total_mem_used' = total_mem_used ]_vars

\* C6: a lookup by device pointer (findPointerInfo, free) of a pointer that was
\* never recorded raises the not-found error and leaves the pointer map and
\* used unchanged; of a recorded pointer, findPointerInfo returns the base
\* pointer and the size that were recorded.
C6_LookupContract ==
  [][ /\ (last'.op \in {"findPointerInfo", "free"} /\
          \A a \in recorded_args : a[1] # last'.arg) =>
           /\ last'.ret = "hipErrorTbd"
           /\ dev_to_allocation_info' = dev_to_allocation_info
           /\ total_mem_used' = total_mem_used
      /\ \A a \in recorded_args :
           (last'.op = "findPointerInfo" /\ last'.arg = a[1]) =>
             /\ last'.ret = "hipSuccess"
             /\ last'.ptr = a[1]
             /\ last'.size = a[2] ]_vars

\* C6 witness: a lookup of a pointer never recorded was refused while another
\* pointer is recorded with a size above zero.
C6_Witness ==
  /\ last.op = "findPointerInfo"
  /\ last.ret = "hipErrorTbd"
  /\ \E a \in recorded_args : a[1] # NULL /\ a[2] > 0

Visited(m) ==
  \/ last.ret = "hipSuccess"
  \/ \E k \in 1 .. Len(trace) : trace[k].m > m

\* C8: for a module with zero declared device variables, allocateDeviceVariables
\* and initializeDeviceVariables mark it allocated (and initialized) without
\* enqueuing an info, bind or init kernel or a copy, without calling
\* Context::allocate and without a blocking finish.
C8_EmptyModuleNoWork ==
  \A m \in Modules :
    (last.op \in {"allocateDeviceVariables", "initializeDeviceVariables"} /\
     chip_vars[m] = << >>) =>
      /\ \A k \in 1 .. Len(trace) : trace[k].m # m
      /\ Visited(m) => DeviceVariablesAllocated[m]
      /\ (Visited(m) /\ last.op = "initializeDeviceVariables") =>
            DeviceVariablesInitialized[m]

\* C8 witness: initializeDeviceVariables returned with a module that declares
\* no variable, which is now allocated and initialized.
C8_Witness ==
  /\ last.op = "initializeDeviceVariables"
  /\ last.ret = "hipSuccess"
  /\ \E m \in Modules :
       /\ chip_vars[m] = << >>
       /\ DeviceVariablesAllocated[m]
       /\ DeviceVariablesInitialized[m]

\* C9: an allocateDeviceVariables that follows an allocation phase that
\* returned, with no deallocate in between, is a no-op: it enqueues no kernel,
\* calls no allocation, and leaves every variable's device address, the
\* tracker's used count and its records unchanged.
C9_SecondAllocateNoOp ==
  [][ (last'.op = "allocateDeviceVariables" /\ hist_alloc_ok) =>
        /\ last'.ret = "hipSuccess"
        /\ trace' = << >>
        /\ chip_vars' = chip_vars
        /\ total_mem_used' = total_mem_used
        /\ max_mem_used' = max_mem_used
        /\ dev_to_allocation_info' = dev_to_allocation_info
        /\ native_live' = native_live ]_vars

\* C9 witness: allocateDeviceVariables was called right after an
\* allocateDeviceVariables that returned, on a module whose variable has
\* storage.
C9_Witness ==
  /\ last.op = "allocateDeviceVariables"
  /\ last.ret = "hipSuccess"
  /\ last.again
  /\ \E m \in Modules : \E i \in 1 .. Len(chip_vars[m]) : chip_vars[m][i].DevAddr # NULL

\* The events of the allocation phase of module m.
AllocationPhaseEvent(e, m) ==
  /\ e.m = m
  /\ \/ e.ev \in {"allocate", "info", "memCopyAsync", "bind"}
     \/ e = Ev("finish", m, 279)

\* C10: initializeDeviceVariables on a module whose variables are not yet
\* allocated first runs the whole allocation phase: on return the module is
\* allocated and initialized, storage was allocated and a bind kernel enqueued
\* for each variable, and every init kernel is enqueued after the allocation
\* phase's final blocking finish.
C10_InitializeAllocatesFirst ==
  [][ (last'.op = "initializeDeviceVariables" /\ last'.ret = "hipSuccess") =>
        \A m \in Modules :
          /\ DeviceVariablesAllocated'[m]
          /\ DeviceVariablesInitialized'[m]
          /\ (~DeviceVariablesAllocated[m] /\ chip_vars[m] # << >>) =>
                \E k \in 1 .. Len(trace') :
                  /\ trace'[k] = Ev("finish", m, 297)
                  /\ \A i \in 1 .. Len(chip_vars[m]) :
                       /\ \E j \in 1 .. (k - 1) : trace'[j] = Ev("allocate", m, i)
                       /\ \E j \in 1 .. (k - 1) : trace'[j] = Ev("bind", m, i)
                  /\ \A j \in 1 .. Len(trace') :
                       /\ AllocationPhaseEvent(trace'[j], m) => j < k
                       /\ (trace'[j].ev = "init" /\ trace'[j].m = m) => j > k ]_vars

\* C10 witness: initializeDeviceVariables returned having allocated a module
\* and enqueued the init kernel of one of its variables.
C10_Witness ==
  /\ last.op = "initializeDeviceVariables"
  /\ last.ret = "hipSuccess"
  /\ \E j, k \in 1 .. Len(trace) :
       /\ trace[k].ev = "finish" /\ trace[k].i = 297
       /\ trace[j].ev = "init" /\ trace[j].m = trace[k].m

\* C11: invalidateDeviceVariables changes only the initialized flag, to false:
\* the allocated flag, every variable's device address, the tracker's used
\* count and its records are unchanged; an initializeDeviceVariables that
\* follows and returns enqueues the init kernel of every variable that has an initializer
\* of an allocated module and calls no allocation for it.
C11_InvalidateFrame ==
  [][ /\ last'.op = "invalidateDeviceVariables" =>
           /\ last'.ret = "hipSuccess"
           /\ \A m \in Modules : ~DeviceVariablesInitialized'[m]
           /\ DeviceVariablesAllocated' = DeviceVariablesAllocated
           /\ chip_vars' = chip_vars
           /\ total_mem_used' = total_mem_used
           /\ max_mem_used' = max_mem_used
           /\ dev_to_allocation_info' = dev_to_allocation_info
           /\ native_live' = native_live
           /\ trace' = << >>
      /\ (last.op = "invalidateDeviceVariables" /\
          last'.op = "initializeDeviceVariables" /\ last'.ret = "hipSuccess") =>
           \A m \in Modules : DeviceVariablesAllocated[m] =>
             /\ \A k \in 1 .. Len(trace') :
                  trace'[k].m = m => trace'[k] \notin
                    { Ev(e, m, i) : e \in {"allocate", "info", "bind"},
                                    i \in 0 .. Len(chip_vars[m]) }
             /\ \A i \in 1 .. Len(chip_vars[m]) :
                  chip_vars[m][i].HasInitializer =>
                    \E k \in 1 .. Len(trace') : trace'[k] = Ev("init", m, i)
             /\ \A i \in 1 .. Len(chip_vars[m]) :
                  chip_vars'[m][i].DevAddr = chip_vars[m][i].DevAddr ]_vars

\* C11 witness: invalidateDeviceVariables was called on an allocated module
\* whose variable has storage and an initializer.
C11_Witness ==
  /\ last.op = "invalidateDeviceVariables"
  /\ \E m \in Modules :
       /\ DeviceVariablesAllocated[m]
       /\ ~DeviceVariablesInitialized[m]
       /\ Len(chip_vars[m]) > 0
       /\ chip_vars[m][1].DevAddr # NULL
       /\ chip_vars[m][1].HasInitializer

\* C12: from any lifecycle state of a module with declared variables
\* (unallocated, allocated, initialized, invalidated, already deallocated),
\* deallocateDeviceVariables completes and leaves every variable with no device
\* address and the allocated and initialized flags false, having released each
\* variable's storage exactly once.
C12_DeallocateCompletes ==
  [][ last'.op = "deallocateDeviceVariables" =>
        /\ last'.ret = "hipSuccess"
        /\ \A m \in Modules :
             /\ ~DeviceVariablesAllocated'[m]
             /\ ~DeviceVariablesInitialized'[m]
             /\ \A i \in 1 .. Len(chip_vars[m]) :
                  /\ chip_vars'[m][i].DevAddr = NULL
                  /\ chip_vars[m][i].DevAddr # NULL =>
                       /\ chip_vars[m][i].DevAddr \notin native_live'
                       /\ Cardinality({ k \in 1 .. Len(trace') :
                                          trace'[k] = Ev("free", m, i) }) = 1 ]_vars

\* C13: when the size an info kernel reports for a variable differs from the
\* size recorded at registration, allocation aborts with a fatal error: the
\* device address is not recorded on that variable, no bind kernel is queued
\* for it, and the module is not marked allocated.
C13_SizeMismatchIsFatal ==
  \A m \in Modules : \A i \in 1 .. Len(chip_vars[m]) :
    (\E k \in 1 .. Len(trace) : trace[k] = Ev("discrepancy", m, i)) =>
      /\ last.ret = "abort"
      /\ chip_vars[m][i].DevAddr = NULL
      /\ \A k \in 1 .. Len(trace) : trace[k] # Ev("bind", m, i)
      /\ ~DeviceVariablesAllocated[m]

\* C14: event state only moves forward INIT -> RECORDING -> COMPLETE: once an
\* event is COMPLETE no later operation on it, recordStream included, puts it
\* back into RECORDING or INIT, and a RECORDING event does not go back to INIT.
C14_StatusOnlyForward ==
  [][ \A e \in Events :
        /\ event_status[e] = "COMPLETE" => event_status'[e] = "COMPLETE"
        /\ event_status[e] = "RECORDING" => event_status'[e] # "INIT" ]_vars

C16_CallbackAfterEarlierWork ==
  [][ \A c \in DOMAIN callbacks :
        callbacks'[c].executed > callbacks[c].executed =>
          dev_done >= callbacks[c].point - 1 ]_vars

\* C17: an operation submitted to the queue after addCallback is completed by
\* the device only when the host callback has run and cpu_callback_complete
\* has been signalled.
C17_DeviceResumesAfterCallback ==
  \A c \in DOMAIN callbacks :
    \A i \in 1 .. dev_done :
      i > callbacks[c].point =>
        /\ callbacks[c].executed >= 1
        /\ callbacks[c].cpu_callback_complete = "COMPLETE"

\* C17 witness: the device has completed a work operation submitted after a
\* callback whose host function has run.
C17_Witness ==
  \E c \in DOMAIN callbacks :
    \E i \in 1 .. dev_done :
      /\ i > callbacks[c].point + 2
      /\ queue_ops[i].kind = "work"
      /\ callbacks[c].executed = 1

\* C18: the monitor invokes the user callback only when gpu_ready of the
\* record is complete, and never reclaims the record before its gpu_ack is
\* complete.
C18_HandshakeOrder ==
  \A c \in DOMAIN callbacks :
    /\ callbacks[c].executed >= 1 => callbacks[c].gpu_ready = "COMPLETE"
    /\ callbacks[c].status = "reclaimed" => callbacks[c].gpu_ack = "COMPLETE"

\* C19: at any time at most one event-monitor thread is running for the
\* backend.
C19_OneMonitor == Cardinality(RunningMonitors) <= 1

\* C20: every callback registered with addCallback is eventually executed
\* exactly once and its record reclaimed, under fair scheduling and unless a
\* wait of a monitor never returns; this includes a callback added after an
\* earlier monitor retired.
C20_EveryCallbackRuns ==
  \A c \in 1 .. MaxCallbacks :
    (c \in DOMAIN callbacks) ~>
      \/ /\ c \in DOMAIN callbacks
         /\ callbacks[c].status = "reclaimed"
         /\ callbacks[c].executed = 1
      \/ \E m \in DOMAIN monitors : monitors[m].pc = "blocked"

\* C21: as long as the queue lists are the ones the devices were initialized
\* with, every setActiveDevice call leaves a consistent active triple: for a
\* device of the backend the active device is that device, the active context
\* its context and the active queue its queue 0; for any other device the
\* call fails with an error and the triple is unchanged.
C21_ActiveTripleConsistent ==
  [][ ( /\ last'.op = "setActiveDevice"
        /\ \A d \in Devices : chip_queues[d] = << DefaultQueue(d) >> ) =>
      IF last'.arg \in Devices
        THEN /\ last'.ret = "ok"
             /\ active_dev' = last'.arg
             /\ active_ctx' = getContext(active_dev')
             /\ active_q' = chip_queues[active_dev'][1]
        ELSE /\ last'.ret = "hipErrorLaunchFailure"
             /\ active_dev' = active_dev
             /\ active_ctx' = active_ctx
             /\ active_q' = active_q ]_vars

\* C21 witness: a call with a device the backend did not create was rejected
\* after the active device had been switched away from the initial one.
C21_Witness ==
  /\ last.op = "setActiveDevice"
  /\ last.arg = ForeignDevice
  /\ last.ret = "hipErrorLaunchFailure"
  /\ active_dev = 2
  /\ active_ctx = getContext(2)
  /\ active_q = DefaultQueue(2)

\* C28: after any sequence of addQueue and removeQueue calls the queue list
\* of every device is non-empty and its element 0 is the default queue.
C28_DefaultQueueFirst ==
  \A d \in Devices :
    /\ chip_queues[d] # << >>
    /\ chip_queues[d][1] = DefaultQueue(d)

\* C22: with host threads each running configureCall, setArg calls and
\* launch, every setArg of a thread writes into the exec item the same thread
\* configured: no item is written by a thread other than the one that
\* configured it.
C22_SetArgOwnItem ==
  \A i \in DOMAIN chip_execstack :
    chip_execstack[i].writers \subseteq { chip_execstack[i].by }

\* C23: findDeviceMatchingProps never returns a device that fails a requested
\* (non-zero) field: a device it returns meets or exceeds every requested
\* field and has the highest score among the devices that do.
C23_ReturnedDeviceQualifies ==
  (matched.called /\ matched.matched_device \in Devices) =>
    /\ Qualifies(matched.matched_device, matched.properties)
    /\ \A d \in Devices :
         Qualifies(d, matched.properties) =>
           matchedCount(device_props[d], matched.properties)
             <= matchedCount(device_props[matched.matched_device], matched.properties)

\* C24 as stated: for a request that sets only major, when several devices
\* qualify, the device returned has the lowest major among the qualifying
\* devices, whatever the order of the device list.
C24_LowestMajorWins ==
  ( /\ matched.called
    /\ matched.properties.major # 0
    /\ matched.properties.minor = 0
    /\ \E d \in Devices : Qualifies(d, matched.properties) ) =>
    /\ matched.matched_device \in Devices
    /\ Qualifies(matched.matched_device, matched.properties)
    /\ \A d \in Devices :
         Qualifies(d, matched.properties) =>
           device_props[matched.matched_device].major <= device_props[d].major

\* C24 amended: for a request that sets only major, when several devices
\* qualify, the device returned is the first qualifying device of the
\* backend's device list.
C24_FirstQualifyingWins ==
  ( /\ matched.called
    /\ matched.properties.major # 0
    /\ matched.properties.minor = 0
    /\ \E d \in Devices : Qualifies(d, matched.properties) ) =>
    /\ matched.matched_device \in Devices
    /\ Qualifies(matched.matched_device, matched.properties)
    /\ \A d \in Devices :
         Qualifies(d, matched.properties) => matched.matched_device <= d

\* C24 witness: a request of major = 3 alone, two qualifying devices of
\* different major, the one with the higher major first in the list and
\* returned.
C24_Witness ==
  /\ matched.called
  /\ matched.properties = [ major |-> 3, minor |-> 0 ]
  /\ device_props[1].major = 4
  /\ device_props[2].major = 3
  /\ matched.matched_device = 1

\* C25: when no device satisfies every requested field the call returns no
\* device, a null result.
C25_NoMatchIsNull ==
  ( /\ matched.called
    /\ \A d \in Devices : ~Qualifies(d, matched.properties) ) =>
    matched.matched_device = NULL

\* C26: when the byte ranges of the arguments set so far do not overlap, the
\* buffer is large enough for each of them and holds each argument's bytes
\* unchanged at its offset, whatever the order of the setArg calls.
C26_ArgsRoundTrip ==
  (\A a, b \in hist_args : ~Overlap(a, b)) =>
    \A a \in hist_args :
      /\ a.offset + a.size <= arg_data.size
      /\ \A k \in 0 .. (a.size - 1) :
           ByteAt(arg_data, a.offset + k) = << a.v, k >>

\* C26 witness: two arguments that do not overlap were set, the one at the
\* higher offset first, and the second call made the buffer grow again.
C26_Witness ==
  /\ offset_sizes = << << ArgSlack + 2, 2 >>, << 0, 2 >> >>
  /\ Cardinality(hist_args) = 2
  /\ ByteAt(arg_data, 1) = << 1, 1 >>
  /\ ByteAt(arg_data, ArgSlack + 3) = << 2, 1 >>

\* C27: launchByHostPtr resolves a host pointer to kernel K only when a
\* registration bound that pointer to K, and it does resolve every pointer a
\* registration bound; for a pointer that was never registered it fails with
\* hipErrorLaunchFailure, submits nothing and leaves the queue's last event
\* unchanged.
C27_LookupByHostPtr ==
  [][ last'.op = "launchByHostPtr" =>
        IF \E k \in DOMAIN chip_kernels : << last'.arg, k >> \in hist_registered
          THEN /\ last'.ret = "ok"
               /\ << last'.arg, last'.ptr >> \in hist_registered
          ELSE /\ last'.ret = "hipErrorLaunchFailure"
               /\ hist_launches' = hist_launches
               /\ LastEvent' = LastEvent ]_vars

\* C29: after Context::reset every tracked allocation of the context and its
\* reservation are released: no pointer is live, the allocation registry is
\* empty and the used count of the device is zero.
C29_ResetReleasesAll ==
  last.op = "reset" =>
    /\ native_live = {}
    /\ total_mem_used = 0
    /\ DOMAIN dev_to_allocation_info = {}

\* C30: when memCopy, memFill, memCopy2D or memCopy3D returns, the operation
\* it submitted and every operation submitted before it on the queue have
\* completed, and the operation was submitted by the asynchronous
\* implementation of the same kind.
C30_SyncReturnsAfterCompletion ==
  [][ (last'.op \in SyncOps /\ last' # last) =>
        /\ \E t \in HostThreads : call_pc[t] = "finish" /\ call_ev[t] = last'.arg
        /\ cmd_done' >= last'.arg
        /\ cmd_list'[last'.arg] = AsyncImpl(last'.op)
        /\ LastEvent' = last'.arg ]_vars

\* C30 witness: a synchronous variant has returned whose operation was the
\* second of the queue, behind an operation submitted asynchronously.
C30_Witness ==
  /\ last.op \in SyncOps
  /\ last.arg = 2
  /\ cmd_list[1] # AsyncImpl(last.op)
  /\ cmd_done = 2

\* C39: when the native allocation fails, Context::allocate returns a null
\* pointer and leaves the pointer-to-record map as it was: the null pointer
\* has no record, so a lookup or free of it signals not-found.
C39_FailedAllocateRecordsNothing ==
  [][ (last'.op = "allocate" /\ last'.ret = "returned" /\ last'.ptr = NULL) =>
        /\ dev_to_allocation_info' = dev_to_allocation_info
        /\ ~getByDevPtrFound(State', NULL) ]_vars

\* C37: in every reachable state of a module, whatever allocate, initialize,
\* invalidate and deallocate calls were made, the initialized flag being
\* true implies that the allocated flag is true.
C37_InitializedImpliesAllocated ==
  \A m \in Modules : DeviceVariablesInitialized[m] => DeviceVariablesAllocated[m]

\* C37 witness: a module with a variable has been initialized, and another
\* state where a deallocate call has cleared both flags again.
C37_Witness ==
  /\ last.op = "deallocateDeviceVariables"
  /\ last.ret = "hipSuccess"
  /\ \E m \in Modules :
       /\ chip_vars[m] # << >>
       /\ ~DeviceVariablesInitialized[m]
       /\ ~DeviceVariablesAllocated[m]
       /\ \E i \in 1 .. Len(chip_vars[m]) : chip_vars[m][i].HasInitializer

\* C38: in every reachable state a module whose allocated flag is true has
\* a device address on every declared variable, and a module whose allocated
\* flag is false has a device address on none.
C38_AllocatedIffAddresses ==
  \A m \in Modules : \A i \in 1 .. Len(chip_vars[m]) :
    DeviceVariablesAllocated[m] <=> (chip_vars[m][i].DevAddr # NULL)

C32_EntryPointsSerialized ==
  [][ /\ Cardinality({ t \in HostThreads : entry_pc'[t] = "locked" }) <= 1
      /\ (last' # last /\ last'.op = "initializeDeviceVariables" /\
          last'.ret = "hipSuccess") =>
            /\ \A m \in Modules : \A i \in 1 .. Len(chip_vars[m]) :
                 \A ev \in {"allocate", "bind", "init"} :
                   Cardinality({ k \in 1 .. Len(trace') : trace'[k] = Ev(ev, m, i) }) <= 1
            /\ (last.op = "initializeDeviceVariables" /\ last.ret = "hipSuccess") =>
                  trace' = << >> ]_vars

\* C32 witness: a second thread called initializeDeviceVariables while the
\* first was inside it, waited for the mutex, and its call returned right
\* after the first thread's, on a module with a variable.
C32_Witness ==
  /\ last.op = "initializeDeviceVariables"
  /\ last.ret = "hipSuccess"
  /\ last.arg = 2
  /\ entry_calls = 2
  /\ \A t \in HostThreads : entry_pc[t] = "idle"
  /\ \E m \in Modules :
       /\ chip_vars[m] # << >>
       /\ DeviceVariablesInitialized[m]
  /\ trace = << >>

\* C31: however allocate, free and reset of several host threads interleave
\* on one device, no two threads are inside a tracker-mutating operation at
\* the same time, and no thread reads the pointer map while another thread
\* writes it.
C31_TrackerSerialized ==
  \A a, b \in HostThreads :
    a # b =>
      /\ ~(alloc_pc[a] = "recordAllocation" /\ alloc_pc[b] = "recordAllocation")
      /\ ~(alloc_pc[a] = "recordAllocation" /\ alloc_pc[b] = "getByDevPtr")

C36_NoEventHeldTwice ==
  \A e \in PoolEventIds :
    /\ hist_holders[e] <= 1
    /\ hist_holders[e] = 1 =>
         \A k \in 1 .. Len(EventPools_) : \A i \in 1 .. Len(EventPools_[k].Events_) :
           EventPools_[k].Events_[i] # e

\* C36 witness: an event that was returned has been handed out a second
\* time, to another thread, while another event is held too.
C36_Witness ==
  /\ last.op = "getEventFromPool"
  /\ last.ret = "reused"
  /\ last.arg = 2
  /\ EventsReused_ >= 1
  /\ \E e \in PoolEventIds : e # last.ptr /\ hist_holders[e] = 1
  /\ hist_holders[last.ptr] = 1

\* C34: once the enqueue operations called on a queue, by one thread or by
\* several at a time, have returned, the queue's last event is the event of
\* the operation that was submitted to the backend last.
C34_LastEventIsLastSubmitted ==
  ((\A t \in HostThreads : call_pc[t] = "idle") /\ cmd_list # << >>) =>
    LastEvent = Len(cmd_list)

\* The order the mutexes are taken in: a mutex is taken only while mutexes
\* of lower rank are held.
Rank(m) ==
  CASE m = "device" -> 1
    [] m \in {"context", "queue"} -> 2
    [] m \in {"tracker", "ContextMtx"} -> 3
    [] m = "EventPoolMtx" -> 4

\* C40: no deadlock.  Threads that call allocate, free, the enqueue
\* operations, addCallback and the device-variable entry points take the
\* device, context, tracker, queue and pool mutexes in one acyclic order,
\* and every call returns, given that the device completes what was
\* submitted to it.
C40_NoDeadlock ==
  /\ [](\A t \in HostThreads :
         (lock_pc[t] > 0 /\ StepOf(t)[1] = "lock") =>
           \A m \in Mutexes : held[m] = t => Rank(m) < Rank(StepOf(t)[2]))
  /\ \A t \in HostThreads : (lock_pc[t] > 0) ~> (lock_pc[t] = 0)

\* C40 witness: a thread inside initializeDeviceVariables holds the device's
\* mutex and waits for the context's mutex, which a thread inside allocate
\* holds while it waits for nothing.
C40_Witness ==
  \E a, b \in HostThreads :
    /\ a # b
    /\ lock_op[a] = "initializeDeviceVariables"
    /\ held["device"] = a
    /\ StepOf(a) = <<"lock", "context">>
    /\ lock_op[b] = "allocate"
    /\ held["context"] = b

====
